---- MODULE Spec2Model ----
(***************************************************************************)
(* navira-car: the sans-I/O CAR v1 / CAR v2 codec.                         *)
(*                                                                         *)
(* Bytes are naturals 0..255, byte strings are sequences of bytes.  Every  *)
(* reader and writer is a record; every method is an operator that takes   *)
(* the record and returns the record after the call together with the      *)
(* call's result.  The actions at the end drive these operators the way a  *)
(* caller of the library does.                                             *)
(***************************************************************************)
EXTENDS Integers, Sequences, FiniteSets, TLC

VARIABLES
    S,        \* the byte stream the caller reads from (reader scenarios)
    kind,     \* which reader the caller drives: "v1", "v2" or "u" (unified)
    rd,       \* the reader
    last,     \* the last call made on the reader and what it returned
    pc,       \* the caller's position in its pull loop
    log,      \* the sections the pull loop has obtained so far
    build,    \* "debug" (overflow checks on) or "release" (wrapping arithmetic)
    wr,       \* the v1 writer
    sink,     \* every byte send_data has emitted, in order
    written   \* the sections written so far, each with the location returned

vars == <<S, kind, rd, last, pc, log, build, wr, sink, written>>

---------------------------------------------------------------------------
(* Byte-string helpers (slices of Vec<u8> / &[u8]).                        *)

Take(s, n) == SubSeq(s, 1, IF n < Len(s) THEN n ELSE Len(s))

Drop(s, n) == SubSeq(s, n + 1, Len(s))

Slice(s, from, to) == SubSeq(s, from + 1, IF to < Len(s) THEN to ELSE Len(s))

StartsWith(s, p) == Len(s) >= Len(p) /\ SubSeq(s, 1, Len(p)) = p

Min(a, b) == IF a < b THEN a ELSE b

(* Body applied to value, with value computed once (a `let` binding).      *)
Bind(value, Body(_)) == CHOOSE result \in {Body(v) : v \in {value}} : TRUE

RECURSIVE Repeat(_, _)
Repeat(b, n) == IF n = 0 THEN <<>> ELSE <<b>> \o Repeat(b, n - 1)

---------------------------------------------------------------------------
(* 64-bit values.  The model's integers are 32 bits wide, so a value of    *)
(* 2^29 or more is kept as the single value Huge: every comparison the     *)
(* codec makes with such a value (against MAX_SECTION_SIZE, against a      *)
(* buffer length) has the same outcome for Huge as for the exact value.    *)

Huge == 2 ^ 29

Pow2(n) == 2 ^ n

Sat(x) == IF x >= Huge THEN Huge ELSE x

AddSat(a, b) == IF a >= Huge \/ b >= Huge THEN Huge ELSE Sat(a + b)

(* value << shift on a u64, for a 7-bit value: at shift 63 only bit 0 of   *)
(* the value stays inside the 64 bits, the others are shifted out.         *)
ShlSat(value, shift) ==
    IF shift = 63 THEN (IF value % 2 = 1 THEN Huge ELSE 0)
    ELSE IF value = 0 THEN 0
    ELSE IF shift >= 22 THEN Huge
    ELSE Sat(value * Pow2(shift))

---------------------------------------------------------------------------
(* wire/varint.rs                                                          *)

VarNone == [ok |-> FALSE, value |-> 0, size |-> 0]

RECURSIVE UVarintDecodeFrom(_, _, _, _)
UVarintDecodeFrom(bytes, i, result, shift) ==
    IF i > Len(bytes) THEN VarNone                       \* incomplete varint
    ELSE Bind(AddSat(result, ShlSat(bytes[i] % 128, shift)), LAMBDA result2 :
             IF bytes[i] < 128
             THEN [ok |-> TRUE, value |-> result2, size |-> i]
             ELSE IF shift + 7 >= 64 THEN VarNone        \* overflow
             ELSE UVarintDecodeFrom(bytes, i + 1, result2, shift + 7))

UVarintDecode(bytes) == UVarintDecodeFrom(bytes, 1, 0, 0)

RECURSIVE UVarintEncode(_)
UVarintEncode(value) ==
    IF value \div 128 # 0
    THEN <<(value % 128) + 128>> \o UVarintEncode(value \div 128)
    ELSE <<value % 128>>

---------------------------------------------------------------------------
(* u64 and i64 at their full width: three limbs <<l1, l2, l3>> of 28, 28   *)
(* and 8 bits, least significant first; an i64 is its two's complement bit *)
(* pattern.  The limb boundaries fall on multiples of 7, so a 7-bit group  *)
(* of a varint never straddles two limbs.                                  *)

LimbSize(i) == IF i < 3 THEN Pow2(28) ELSE Pow2(8)

Word(l1, l2, l3) == <<l1, l2, l3>>

WordOfInt(x) ==
    IF x >= 0 THEN Word(x, 0, 0)
    ELSE Word(LimbSize(1) + x, LimbSize(2) - 1, LimbSize(3) - 1)

WordZero == Word(0, 0, 0)

WordMinusOne == Word(LimbSize(1) - 1, LimbSize(2) - 1, LimbSize(3) - 1)

IsNegative(w) == w[3] >= 128

(* value & 0x7F                                                            *)
Low7(w) == w[1] % 128

(* value >>= 7 on a u64                                                    *)
Shr7(w) ==
    Word(w[1] \div 128 + (w[2] % 128) * Pow2(21),
         w[2] \div 128 + (w[3] % 128) * Pow2(21),
         w[3] \div 128)

(* value >>= 7 on an i64: the sign bit fills the seven bits freed.         *)
Sar7(w) ==
    Word(w[1] \div 128 + (w[2] % 128) * Pow2(21),
         w[2] \div 128 + (w[3] % 128) * Pow2(21),
         w[3] \div 128 + (IF IsNegative(w) THEN 254 ELSE 0))

(* value |= -(1 << (64 - 7)): bits 57..63 set.                             *)
OrHigh7(w) == Word(w[1], w[2], 254 + (w[3] % 2))

(* result |= value << shift, for a 7-bit value and shift a multiple of 7   *)
(* below 64, result having no bit set at shift or above; the bits moved    *)
(* past bit 63 are lost.                                                   *)
OrShl(w, value, shift) ==
    IF shift < 28 THEN Word(w[1] + value * Pow2(shift), w[2], w[3])
    ELSE IF shift < 56 THEN Word(w[1], w[2] + value * Pow2(shift - 28), w[3])
    ELSE IF shift = 56 THEN Word(w[1], w[2], w[3] + value)
    ELSE Word(w[1], w[2], w[3] + (value % 2) * 128)

(* result |= -1i64 << shift, for shift a multiple of 7 below 64, result    *)
(* having no bit set at shift or above.                                    *)
OrOnesFrom(w, shift) ==
    IF shift < 28
    THEN Word(w[1] + LimbSize(1) - Pow2(shift), LimbSize(2) - 1, LimbSize(3) - 1)
    ELSE IF shift < 56
    THEN Word(w[1], w[2] + LimbSize(2) - Pow2(shift - 28), LimbSize(3) - 1)
    ELSE Word(w[1], w[2], w[3] + LimbSize(3) - Pow2(shift - 56))

RECURSIVE UnsignedVarintEncode(_)
UnsignedVarintEncode(value) ==
    IF Shr7(value) # WordZero
    THEN <<Low7(value) + 128>> \o UnsignedVarintEncode(Shr7(value))
    ELSE <<Low7(value)>>

WordNone == [ok |-> FALSE, value |-> WordZero, size |-> 0]

RECURSIVE UnsignedVarintDecodeFrom(_, _, _, _)
UnsignedVarintDecodeFrom(bytes, i, result, shift) ==
    IF i > Len(bytes) THEN WordNone                      \* incomplete varint
    ELSE IF bytes[i] < 128
    THEN [ok |-> TRUE, value |-> OrShl(result, bytes[i] % 128, shift), size |-> i]
    ELSE IF shift + 7 >= 64 THEN WordNone                \* overflow
    ELSE UnsignedVarintDecodeFrom(bytes, i + 1,
                                  OrShl(result, bytes[i] % 128, shift), shift + 7)

(* An unsigned decode that gives up one byte later.                        *)
RECURSIVE UnsignedVarintDecodeLateFrom(_, _, _, _)
UnsignedVarintDecodeLateFrom(bytes, i, result, shift) ==
    IF i > Len(bytes) THEN WordNone
    ELSE IF bytes[i] < 128
    THEN [ok |-> TRUE, value |-> OrShl(result, bytes[i] % 128, shift), size |-> i]
    ELSE IF shift + 7 > 70 THEN WordNone
    ELSE UnsignedVarintDecodeLateFrom(bytes, i + 1,
                                      OrShl(result, bytes[i] % 128, shift), shift + 7)

UnsignedVarintDecodeLate(bytes) == UnsignedVarintDecodeLateFrom(bytes, 1, WordZero, 0)

UnsignedVarintDecode(bytes) == UnsignedVarintDecodeFrom(bytes, 1, WordZero, 0)

RECURSIVE SignedVarintEncodeFrom(_, _)
SignedVarintEncodeFrom(value, neg) ==
    LET byte   == Low7(value)
        value2 == IF neg THEN OrHigh7(Sar7(value)) ELSE Sar7(value)
    IN  IF (value2 = WordZero /\ byte < 64)
            \/ (value2 = WordMinusOne /\ byte >= 64)
        THEN <<byte>>
        ELSE <<byte + 128>> \o SignedVarintEncodeFrom(value2, neg)

SignedVarintEncode(value) == SignedVarintEncodeFrom(value, IsNegative(value))

RECURSIVE SignedVarintDecodeFrom(_, _, _, _)
SignedVarintDecodeFrom(bytes, i, result, shift) ==
    IF i > Len(bytes) THEN WordNone                      \* incomplete varint
    ELSE LET result2 == OrShl(result, bytes[i] % 128, shift)
             shift2  == shift + 7
         IN  IF bytes[i] < 128
             THEN [ok    |-> TRUE,
                   value |-> IF shift2 < 64 /\ bytes[i] % 128 >= 64
                             THEN OrOnesFrom(result2, shift2) ELSE result2,
                   size  |-> i]
             ELSE IF shift2 >= 64 THEN WordNone          \* overflow
             ELSE SignedVarintDecodeFrom(bytes, i + 1, result2, shift2)

(* A signed decode that never extends the sign.                            *)
SignedVarintDecodeUnextended(bytes) == UnsignedVarintDecode(bytes)

SignedVarintDecode(bytes) == SignedVarintDecodeFrom(bytes, 1, WordZero, 0)

(* a + value on a usize, for a small a and a u64 value: the sum wraps       *)
(* around when value >= 2^64 - a.  With overflow checks the addition       *)
(* panics, without them the sum is a + value - 2^64.                       *)
UsizeAddWraps(a, value) ==
    /\ value[3] = LimbSize(3) - 1
    /\ value[2] = LimbSize(2) - 1
    /\ value[1] + a >= LimbSize(1)

UsizeAddWrapped(a, value) == value[1] + a - LimbSize(1)

(* UnsignedVarint::decode with the value both ways: saturated, and word,   *)
(* the 64 bits.                                                            *)
UVarintDecodeWide(bytes) ==
    Bind(UVarintDecode(bytes), LAMBDA v :
        [ok |-> v.ok, value |-> v.value, size |-> v.size,
         word |-> UnsignedVarintDecode(bytes).value])

---------------------------------------------------------------------------
(* wire/cid.rs                                                             *)

CidErr(e) == [kind |-> e, cid |-> <<>>, size |-> 0]

(* A try_read_bytes that leaves the version byte out of the CIDv1 length.  *)
CidTryReadBytesShort(bytes) ==
    IF Len(bytes) < 2 THEN CidErr("InsufficientData")
    ELSE IF StartsWith(bytes, <<18, 32>>)
    THEN IF Len(bytes) < 34 THEN CidErr("InsufficientData")
         ELSE [kind |-> "Ok", cid |-> Take(bytes, 34), size |-> 34]
    ELSE IF bytes[1] = 1
    THEN Bind(UVarintDecode(Drop(bytes, 1)), LAMBDA mc :
         IF ~mc.ok THEN CidErr("InsufficientData")
         ELSE Bind(UVarintDecode(Drop(bytes, 1 + mc.size)), LAMBDA code :
              IF ~code.ok THEN CidErr("InsufficientData")
              ELSE Bind(UVarintDecodeWide(Drop(bytes, 1 + mc.size + code.size)), LAMBDA len :
                   IF ~len.ok THEN CidErr("InsufficientData")
                   ELSE IF UsizeAddWraps(mc.size + code.size + len.size, len.word)
                   THEN IF build = "debug" THEN CidErr("Panic")
                        ELSE Bind(UsizeAddWrapped(mc.size + code.size + len.size, len.word),
                                  LAMBDA total :
                             [kind |-> "Ok", cid |-> Take(bytes, total), size |-> total])
                   ELSE Bind(AddSat(mc.size + code.size + len.size, len.value),
                             LAMBDA total :
                        IF Len(bytes) < total
                        THEN CidErr("InsufficientData")
                        ELSE [kind |-> "Ok", cid |-> Take(bytes, total),
                              size |-> total]))))
    ELSE CidErr("UnsupportedVersion")

CidTryReadBytes(bytes) ==
    IF Len(bytes) < 2 THEN CidErr("InsufficientData")
    ELSE IF StartsWith(bytes, <<18, 32>>)
    THEN IF Len(bytes) < 34 THEN CidErr("InsufficientData")
         ELSE [kind |-> "Ok", cid |-> Take(bytes, 34), size |-> 34]
    ELSE IF bytes[1] = 1
    THEN Bind(UVarintDecode(Drop(bytes, 1)), LAMBDA mc :
         IF ~mc.ok THEN CidErr("InsufficientData")
         ELSE Bind(UVarintDecode(Drop(bytes, 1 + mc.size)), LAMBDA code :
              IF ~code.ok THEN CidErr("InsufficientData")
              ELSE Bind(UVarintDecodeWide(Drop(bytes, 1 + mc.size + code.size)), LAMBDA len :
                   IF ~len.ok THEN CidErr("InsufficientData")
                   ELSE IF UsizeAddWraps(1 + mc.size + code.size + len.size, len.word)
                   THEN IF build = "debug" THEN CidErr("Panic")
                        ELSE Bind(UsizeAddWrapped(1 + mc.size + code.size + len.size, len.word),
                                  LAMBDA total :
                             [kind |-> "Ok", cid |-> Take(bytes, total), size |-> total])
                   ELSE Bind(AddSat(1 + mc.size + code.size + len.size, len.value),
                             LAMBDA total :
                        IF Len(bytes) < total
                        THEN CidErr("InsufficientData")
                        ELSE [kind |-> "Ok", cid |-> Take(bytes, total),
                              size |-> total]))))
    ELSE CidErr("UnsupportedVersion")

---------------------------------------------------------------------------
(* wire/v1/data.rs                                                         *)

MAX_BLOCK_SIZE == 2 ^ 21

MAX_SECTION_SIZE == MAX_BLOCK_SIZE + 128

Section(length, cid, block) == [length |-> length, cid |-> cid, block |-> block]

NoSection == Section(0, <<>>, <<>>)

SecErr(e) == [kind |-> e, section |-> NoSection, size |-> 0]

(* `length_varint as usize - cid_size` with length < cid_size: a panic     *)
(* with overflow checks, a wrapped value without.  In try_read_bytes the   *)
(* wrapped block size makes the slice end lie before its start, which      *)
(* panics as well; try_read_header_bytes only adds the sizes up, and the   *)
(* wrapped sum is varint_size + length.                                    *)
SectionTryReadHeaderBytes(bytes) ==
    Bind(UVarintDecode(bytes), LAMBDA v :
        IF ~v.ok
        THEN IF Len(bytes) > 16 THEN SecErr("InvalidSize")
             ELSE SecErr("InsufficientData")
        ELSE IF v.value > MAX_SECTION_SIZE THEN SecErr("InvalidSize")
        ELSE Bind(CidTryReadBytes(Drop(bytes, v.size)), LAMBDA c :
                 IF c.kind = "InsufficientData" THEN SecErr("InsufficientData")
                 ELSE IF c.kind = "Panic" THEN SecErr("Panic")
                 ELSE IF c.kind # "Ok" THEN SecErr("InvalidCid")
                 ELSE IF v.value < c.size /\ build = "debug" THEN SecErr("Panic")
                 ELSE [kind    |-> "Ok",
                       section |-> Section(v.value, c.cid, <<>>),
                       size    |-> v.size + v.value]))

(* A try_read_bytes that looks at the ceiling only once the payload is     *)
(* there.                                                                  *)
SectionTryReadBytesLateCeiling(bytes) ==
    Bind(UVarintDecode(bytes), LAMBDA v :
        IF ~v.ok
        THEN IF Len(bytes) > 16 THEN SecErr("InvalidSize")
             ELSE SecErr("InsufficientData")
        ELSE Bind(CidTryReadBytes(Drop(bytes, v.size)), LAMBDA c :
                 IF c.kind = "InsufficientData" THEN SecErr("InsufficientData")
                 ELSE IF c.kind = "Panic" THEN SecErr("Panic")
                 ELSE IF c.kind # "Ok" THEN SecErr("InvalidCid")
                 ELSE IF v.value < c.size THEN SecErr("Panic")
                 ELSE IF Len(bytes) < v.size + c.size + (v.value - c.size)
                 THEN SecErr("InsufficientData")
                 ELSE IF v.value > MAX_SECTION_SIZE THEN SecErr("InvalidSize")
                 ELSE [kind    |-> "Ok",
                       section |-> Section(v.value, c.cid,
                                     Slice(bytes, v.size + c.size,
                                           v.size + c.size + (v.value - c.size))),
                       size    |-> v.size + c.size + (v.value - c.size)]))

SectionTryReadBytes(bytes) ==
    Bind(UVarintDecode(bytes), LAMBDA v :
        IF ~v.ok
        THEN IF Len(bytes) > 16 THEN SecErr("InvalidSize")
             ELSE SecErr("InsufficientData")
        ELSE IF v.value > MAX_SECTION_SIZE THEN SecErr("InvalidSize")
        ELSE Bind(CidTryReadBytes(Drop(bytes, v.size)), LAMBDA c :
                 IF c.kind = "InsufficientData" THEN SecErr("InsufficientData")
                 ELSE IF c.kind = "Panic" THEN SecErr("Panic")
                 ELSE IF c.kind # "Ok" THEN SecErr("InvalidCid")
                 ELSE IF v.value < c.size THEN SecErr("Panic")
                 ELSE IF Len(bytes) < v.size + c.size + (v.value - c.size)
                 THEN SecErr("InsufficientData")
                 ELSE [kind    |-> "Ok",
                       section |-> Section(v.value, c.cid,
                                     Slice(bytes, v.size + c.size,
                                           v.size + c.size + (v.value - c.size))),
                       size    |-> v.size + c.size + (v.value - c.size)]))

(* A to_bytes whose length prefix is always one byte.                      *)
SectionToBytesShortPrefix(section) ==
    <<section.length % 128>> \o section.cid \o section.block

SectionToBytes(section) ==
    UVarintEncode(section.length) \o section.cid \o section.block

(* Section::new(cid, block) and Section::total_length() as wire/v1/write.rs *)
(* uses them; the data.rs at hand has the older three-argument constructor. *)
SectionNew(cid, block) == Section(Len(cid) + Len(block), cid, block)

SectionTotalLength(section) ==
    Len(UVarintEncode(section.length)) + section.length

---------------------------------------------------------------------------
(* wire/v1/header.rs: CarHeader { version, roots } and its CBOR form.      *)
(* ciborium is modelled for the definite-length, shortest-form encoding of *)
(* this one type: a map of two text keys, "roots" (an array of tag-42 byte *)
(* strings) and "version" (an unsigned integer), in either order.          *)

TextRoots == <<101, 114, 111, 111, 116, 115>>                \* 65 "roots"

TextVersion == <<103, 118, 101, 114, 115, 105, 111, 110>>    \* 67 "version"

CarHeader(version, roots) ==
    [present |-> TRUE, version |-> version, roots |-> roots, size |-> 0]

NoCarHeader == [present |-> FALSE, version |-> 0, roots |-> <<>>, size |-> 0]

CarHeaderNew(roots) == CarHeader(1, roots)

(* RawLink: the CID behind the multibase identity prefix 0x00, in a CBOR   *)
(* byte string under tag 42.                                               *)
RawLinkBytes(cid) == <<0>> \o cid

RawLinkDecode(content) ==
    IF Len(content) >= 1 /\ content[1] = 0
    THEN [ok |-> TRUE, cid |-> Tail(content)]
    ELSE [ok |-> FALSE, cid |-> <<>>]

CborBytesHead(n) == IF n < 24 THEN <<64 + n>> ELSE <<88, n>>

CborLink(cid) ==
    <<216, 42>> \o CborBytesHead(Len(cid) + 1) \o RawLinkBytes(cid)

RECURSIVE CborLinks(_)
CborLinks(roots) ==
    IF roots = <<>> THEN <<>> ELSE CborLink(Head(roots)) \o CborLinks(Tail(roots))

(* serde writes the fields of the struct in declaration order.             *)
CarHeaderSerialize(header) ==
    <<162>> \o TextVersion \o <<header.version>>
            \o TextRoots \o <<128 + Len(header.roots)>> \o CborLinks(header.roots)

CborFail == [ok |-> FALSE, value |-> <<>>, next |-> 0]

(* One tag-42 byte string starting at index p (1-based).                   *)
CborReadLink(bytes, p) ==
    IF p + 2 > Len(bytes) \/ bytes[p] # 216 \/ bytes[p + 1] # 42 THEN CborFail
    ELSE LET b   == bytes[p + 2]
             hp  == IF b = 88 THEN p + 4 ELSE p + 3
             len == IF b = 88
                    THEN (IF p + 3 <= Len(bytes) THEN bytes[p + 3] ELSE 0)
                    ELSE b - 64
         IN  IF ~(b = 88 \/ (b >= 64 /\ b <= 87)) THEN CborFail
             ELSE IF b = 88 /\ p + 3 > Len(bytes) THEN CborFail
             ELSE IF hp + len - 1 > Len(bytes) THEN CborFail
             ELSE Bind(RawLinkDecode(SubSeq(bytes, hp, hp + len - 1)), LAMBDA link :
                      IF ~link.ok THEN CborFail
                      ELSE [ok |-> TRUE, value |-> link.cid, next |-> hp + len])

RECURSIVE CborReadLinks(_, _, _, _)
CborReadLinks(bytes, p, n, acc) ==
    IF n = 0 THEN [ok |-> TRUE, value |-> acc, next |-> p]
    ELSE Bind(CborReadLink(bytes, p), LAMBDA l :
             IF ~l.ok THEN CborFail
             ELSE Bind(Append(acc, l.value), LAMBDA acc2 :
                      CborReadLinks(bytes, l.next, n - 1, acc2)))

CborReadRoots(bytes, p) ==
    IF p > Len(bytes) \/ bytes[p] < 128 \/ bytes[p] > 151 THEN CborFail
    ELSE CborReadLinks(bytes, p + 1, bytes[p] - 128, <<>>)

CborReadUint(bytes, p) ==
    IF p > Len(bytes) THEN CborFail
    ELSE IF bytes[p] < 24 THEN [ok |-> TRUE, value |-> bytes[p], next |-> p + 1]
    ELSE IF bytes[p] = 24 /\ p + 1 <= Len(bytes)
    THEN [ok |-> TRUE, value |-> bytes[p + 1], next |-> p + 2]
    ELSE CborFail

(* One "key: value" entry of the header map starting at index p.           *)
CborReadField(bytes, p) ==
    IF StartsWith(SubSeq(bytes, p, Len(bytes)), TextRoots)
    THEN Bind(CborReadRoots(bytes, p + Len(TextRoots)), LAMBDA r :
             [ok |-> r.ok, key |-> "roots", value |-> r.value, next |-> r.next])
    ELSE IF StartsWith(SubSeq(bytes, p, Len(bytes)), TextVersion)
    THEN Bind(CborReadUint(bytes, p + Len(TextVersion)), LAMBDA r :
             [ok |-> r.ok, key |-> "version", value |-> r.value, next |-> r.next])
    ELSE [ok |-> FALSE, key |-> "", value |-> <<>>, next |-> 0]

(* ciborium::from_reader::<CarHeader>: NoCarHeader stands for Err.         *)
CarHeaderDeserialize(bytes) ==
    IF Len(bytes) < 1 \/ bytes[1] # 162 THEN NoCarHeader
    ELSE Bind(CborReadField(bytes, 2), LAMBDA f1 :
             IF ~f1.ok THEN NoCarHeader
             ELSE Bind(CborReadField(bytes, f1.next), LAMBDA f2 :
                      IF ~f2.ok \/ f2.key = f1.key THEN NoCarHeader
                      ELSE IF f1.key = "roots"
                      THEN CarHeader(f2.value, f1.value)
                      ELSE CarHeader(f1.value, f2.value)))

---------------------------------------------------------------------------
(* Results of reader calls.  kind is "Ok" or the name of the error;        *)
(* offset and hint are InsufficientData's arguments; section and location  *)
(* are the LocatableSection of an Ok from read_section / find_section.     *)

SectionLocation(offset, length) == [offset |-> offset, length |-> length]

NoLocation == SectionLocation(0, 0)

Result(k, offset, hint, section, location) ==
    [kind |-> k, offset |-> offset, hint |-> hint,
     section |-> section, location |-> location]

Ok == Result("Ok", 0, 0, NoSection, NoLocation)

Err(e) == Result(e, 0, 0, NoSection, NoLocation)

InsufficientData(offset, hint) ==
    Result("InsufficientData", offset, hint, NoSection, NoLocation)

OkSection(section, location) == Result("Ok", 0, 0, section, location)

Ret(reader, res) == [rd |-> reader, res |-> res]

---------------------------------------------------------------------------
(* wire/v1/read.rs: the CAR v1 reader.                                     *)

V1New == [data |-> <<>>, start |-> 0, header |-> NoCarHeader]

V1HasHeader(r) == r.header.present

(* A seek that places start after the bytes it has dropped.                *)
V1SeekFirstSectionPastBuffer(r) ==
    IF r.header.present
    THEN IF r.start = r.header.size THEN Ret(r, Ok)
         ELSE Ret([r EXCEPT !.data = <<>>, !.start = r.header.size + Len(r.data)], Ok)
    ELSE Ret(r, Err("PreconditionNotMet"))

(* A seek that clears the buffer even when start is at the first section.  *)
V1SeekFirstSectionAlwaysClear(r) ==
    IF r.header.present
    THEN Ret([r EXCEPT !.data = <<>>, !.start = r.header.size], Ok)
    ELSE Ret(r, Err("PreconditionNotMet"))

V1SeekFirstSection(r) ==
    IF r.header.present
    THEN IF r.start = r.header.size THEN Ret(r, Ok)
         ELSE Ret([r EXCEPT !.data = <<>>, !.start = r.header.size], Ok)
    ELSE Ret(r, Err("PreconditionNotMet"))

(* A receive_data that never appends.                                      *)
V1ReceiveDataResetting(r, buf, pos) == [r EXCEPT !.data = buf, !.start = pos]

(* A receive_data that appends whatever the position is.                   *)
V1ReceiveDataAppending(r, buf, pos) == [r EXCEPT !.data = r.data \o buf]

V1ReceiveData(r, buf, pos) ==
    IF pos = r.start + Len(r.data)
    THEN [r EXCEPT !.data = r.data \o buf]
    ELSE [r EXCEPT !.data = buf, !.start = pos]

(* A read_header that drains the header without advancing start.           *)
V1ReadHeaderNoAdvance(r) ==
    IF r.header.present THEN Ret(r, Ok)
    ELSE IF r.start # 0 THEN Ret(r, InsufficientData(0, 8))
    ELSE Bind(UVarintDecode(r.data), LAMBDA v :
         IF v.ok
         THEN Bind(AddSat(v.size, v.value), LAMBDA total_header_size :
              IF Len(r.data) < total_header_size
              THEN Ret(r, InsufficientData(r.start + Len(r.data),
                                           total_header_size - Len(r.data)))
              ELSE Bind(CarHeaderDeserialize(Slice(r.data, v.size, total_header_size)),
                        LAMBDA h :
                   IF ~h.present THEN Ret(r, Err("InvalidHeader"))
                   ELSE Ret([data   |-> Drop(r.data, total_header_size),
                             start  |-> r.start,
                             header |-> [h EXCEPT !.size = total_header_size]],
                            Ok)))
         ELSE IF Len(r.data) > 8 THEN Ret(r, Err("InvalidFormat"))
         ELSE Ret(r, InsufficientData(r.start + Len(r.data), 8)))

(* A read_header that parses whatever is buffered, wherever it starts.     *)
V1ReadHeaderNoRewind(r) ==
    IF r.header.present THEN Ret(r, Ok)
    ELSE Bind(UVarintDecode(r.data), LAMBDA v :
         IF v.ok
         THEN Bind(AddSat(v.size, v.value), LAMBDA total_header_size :
              IF Len(r.data) < total_header_size
              THEN Ret(r, InsufficientData(r.start + Len(r.data),
                                           total_header_size - Len(r.data)))
              ELSE Bind(CarHeaderDeserialize(Slice(r.data, v.size, total_header_size)),
                        LAMBDA h :
                   IF ~h.present THEN Ret(r, Err("InvalidHeader"))
                   ELSE Ret([data   |-> Drop(r.data, total_header_size),
                             start  |-> r.start + total_header_size,
                             header |-> [h EXCEPT !.size = total_header_size]],
                            Ok)))
         ELSE IF Len(r.data) > 8 THEN Ret(r, Err("InvalidFormat"))
         ELSE Ret(r, InsufficientData(r.start + Len(r.data), 8)))

V1ReadHeader(r) ==
    IF r.header.present THEN Ret(r, Ok)
    ELSE IF r.start # 0 THEN Ret(r, InsufficientData(0, 8))
    ELSE Bind(UVarintDecode(r.data), LAMBDA v :
         IF v.ok
         THEN Bind(AddSat(v.size, v.value), LAMBDA total_header_size :
              IF Len(r.data) < total_header_size
              THEN Ret(r, InsufficientData(r.start + Len(r.data),
                                           total_header_size - Len(r.data)))
              ELSE Bind(CarHeaderDeserialize(Slice(r.data, v.size, total_header_size)),
                        LAMBDA h :
                   IF ~h.present THEN Ret(r, Err("InvalidHeader"))
                   ELSE Ret([data   |-> Drop(r.data, total_header_size),
                             start  |-> r.start + total_header_size,
                             header |-> [h EXCEPT !.size = total_header_size]],
                            Ok)))
         ELSE IF Len(r.data) > 8 THEN Ret(r, Err("InvalidFormat"))
         ELSE Ret(r, InsufficientData(r.start + Len(r.data), 8)))

(* A read_section that gives up the bytes of an incomplete section.        *)
V1ReadSectionDraining(r) ==
    IF ~V1HasHeader(r) THEN Ret(r, Err("PreconditionNotMet"))
    ELSE Bind(SectionTryReadBytes(r.data), LAMBDA p :
             IF p.kind = "Ok"
             THEN Bind(r.start + p.size, LAMBDA start2 :
                      Ret([r EXCEPT !.data = Drop(r.data, p.size), !.start = start2],
                          OkSection(p.section,
                                    SectionLocation(start2 - p.size, p.size))))
             ELSE IF p.kind = "InsufficientData"
             THEN Ret([r EXCEPT !.data = <<>>, !.start = r.start + Len(r.data)],
                      InsufficientData(r.start + Len(r.data), 0))
             ELSE Ret(r, Err(p.kind)))

(* A read_section that drains the section without advancing start.         *)
V1ReadSectionKeepStart(r) ==
    IF ~V1HasHeader(r) THEN Ret(r, Err("PreconditionNotMet"))
    ELSE Bind(SectionTryReadBytes(r.data), LAMBDA p :
             IF p.kind = "Ok"
             THEN Ret([r EXCEPT !.data = Drop(r.data, p.size)],
                      OkSection(p.section, SectionLocation(r.start, p.size)))
             ELSE IF p.kind = "InsufficientData"
             THEN Ret(r, InsufficientData(r.start + Len(r.data), 0))
             ELSE Ret(r, Err(p.kind)))

(* A read_section that reports the offset after the section.               *)
V1ReadSectionOffsetAfter(r) ==
    IF ~V1HasHeader(r) THEN Ret(r, Err("PreconditionNotMet"))
    ELSE Bind(SectionTryReadBytes(r.data), LAMBDA p :
             IF p.kind = "Ok"
             THEN Ret([r EXCEPT !.data = Drop(r.data, p.size), !.start = r.start + p.size],
                      OkSection(p.section, SectionLocation(r.start + p.size, p.size)))
             ELSE IF p.kind = "InsufficientData"
             THEN Ret(r, InsufficientData(r.start + Len(r.data), 0))
             ELSE Ret(r, Err(p.kind)))

V1ReadSection(r) ==
    IF ~V1HasHeader(r) THEN Ret(r, Err("PreconditionNotMet"))
    ELSE Bind(SectionTryReadBytes(r.data), LAMBDA p :
             IF p.kind = "Ok"
             THEN Bind(r.start + p.size, LAMBDA start2 :
                      Ret([r EXCEPT !.data = Drop(r.data, p.size), !.start = start2],
                          OkSection(p.section,
                                    SectionLocation(start2 - p.size, p.size))))
             ELSE IF p.kind = "InsufficientData"
             THEN Ret(r, InsufficientData(r.start + Len(r.data), 0))
             ELSE Ret(r, Err(p.kind)))

(* A find_section that skips a section by its length field, without the    *)
(* length prefix.                                                          *)
RECURSIVE V1FindSectionLoopShortSkip(_, _)
V1FindSectionLoopShortSkip(r, cid) ==
    Bind(SectionTryReadHeaderBytes(r.data), LAMBDA p :
        IF p.kind = "Ok"
        THEN IF p.section.cid = cid
             THEN V1ReadSection(r)
             ELSE Bind([r EXCEPT !.data  = IF Len(r.data) <= p.section.length THEN <<>>
                                           ELSE Drop(r.data, p.section.length),
                                 !.start = r.start + p.section.length],
                       LAMBDA skipped : V1FindSectionLoopShortSkip(skipped, cid))
        ELSE IF p.kind = "InsufficientData"
        THEN Ret(r, InsufficientData(r.start + Len(r.data), 0))
        ELSE Ret(r, Err(p.kind)))

(* The loop of find_section: each round either returns or skips one        *)
(* section whose CID differs.                                              *)
RECURSIVE V1FindSectionLoop(_, _)
V1FindSectionLoop(r, cid) ==
    Bind(SectionTryReadHeaderBytes(r.data), LAMBDA p :
        IF p.kind = "Ok"
        THEN IF p.section.cid = cid
             THEN V1ReadSection(r)
             ELSE Bind([r EXCEPT !.data  = IF Len(r.data) <= p.size THEN <<>>
                                           ELSE Drop(r.data, p.size),
                                 !.start = r.start + p.size],
                       LAMBDA skipped : V1FindSectionLoop(skipped, cid))
        ELSE IF p.kind = "InsufficientData"
        THEN Ret(r, InsufficientData(r.start + Len(r.data), 0))
        ELSE Ret(r, Err(p.kind)))

(* A find_section that does not ask for the header.                        *)
V1FindSectionUnguarded(r, cid) == V1FindSectionLoop(r, cid)

V1FindSection(r, cid) ==
    IF ~V1HasHeader(r) THEN Ret(r, Err("PreconditionNotMet"))
    ELSE V1FindSectionLoop(r, cid)

---------------------------------------------------------------------------
(* wire/v2/mod.rs, wire/v2/header.rs                                       *)

CAR_V2_PRAGMA == <<10, 161, 103, 118, 101, 114, 115, 105, 111, 110, 2>>

CarV2Header(characteristics, data_offset, data_size, index_offset) ==
    [characteristics |-> characteristics, data_offset |-> data_offset,
     data_size |-> data_size, index_offset |-> index_offset]

NoV2Header == CarV2Header(0, 0, 0, 0)

(* u64::MAX, the one value of 2^29 or more that is told apart from the     *)
(* others: added to anything but 0 it wraps around.                        *)
Max64 == Huge + 1

RECURSIVE FromLeBytes(_)
FromLeBytes(bytes) ==
    IF bytes = <<>> THEN 0
    ELSE IF bytes = <<255, 255, 255, 255, 255, 255, 255, 255>> THEN Max64
    ELSE LET hi == FromLeBytes(Tail(bytes))
         IN  IF hi >= Huge \div 256 THEN Huge ELSE Head(bytes) + 256 * hi

(* a + b on a usize wraps around: with overflow checks the addition        *)
(* panics, without them the sum is a + b - 2^64, less than a and than b.   *)
SumWraps(a, b) == (a = Max64 /\ b >= 1) \/ (b = Max64 /\ a >= 1)

RECURSIVE ToLeBytes(_, _)
ToLeBytes(value, n) ==
    IF n = 0 THEN <<>>
    ELSE IF value = Max64 THEN [i \in 1..n |-> 255]
    ELSE <<value % 256>> \o ToLeBytes(value \div 256, n - 1)

CarV2HeaderFromBytes(bytes) ==
    CarV2Header(FromLeBytes(Slice(bytes, 0, 16)), FromLeBytes(Slice(bytes, 16, 24)),
                FromLeBytes(Slice(bytes, 24, 32)), FromLeBytes(Slice(bytes, 32, 40)))

CarV2HeaderToBytes(h) ==
    ToLeBytes(h.characteristics, 16) \o ToLeBytes(h.data_offset, 8)
        \o ToLeBytes(h.data_size, 8) \o ToLeBytes(h.index_offset, 8)

---------------------------------------------------------------------------
(* wire/v2/read.rs: the CAR v2 reader.  In state NoHeader the record's     *)
(* data/start are NoHeaderState's; in HeaderV2 and HeaderV1 its header and *)
(* v1_reader are HeaderState's.                                            *)

V2New ==
    [state |-> "NoHeader", data |-> <<>>, start |-> 0,
     header |-> NoV2Header, v1_reader |-> V1New]

(* A header state that keeps a fresh v1 reader instead of the one that has *)
(* read the payload so far.                                                *)
V2HeaderStateFreshReader(state, header, v1_reader) ==
    [state |-> state, data |-> <<>>, start |-> 0,
     header |-> header, v1_reader |-> V1New]

(* A header state that is always HeaderV1.                                 *)
V2HeaderStateAlwaysV1(state, header, v1_reader) ==
    [state |-> "HeaderV1", data |-> <<>>, start |-> 0,
     header |-> header, v1_reader |-> v1_reader]

V2HeaderState(state, header, v1_reader) ==
    [state |-> state, data |-> <<>>, start |-> 0,
     header |-> header, v1_reader |-> v1_reader]

V2HasHeader(r) == r.state = "HeaderV1"

(* A receive_data that in state NoHeader restarts the buffer at an         *)
(* out-of-order position, as the v1 reader does.                           *)
V2ReceiveDataSeeking(r, buf, pos) ==
    IF r.state = "NoHeader"
    THEN IF pos # r.start + Len(r.data) THEN [r EXCEPT !.data = buf, !.start = pos]
         ELSE [r EXCEPT !.data = r.data \o buf]
    ELSE IF pos < r.header.data_offset
              \/ pos >= AddSat(r.header.data_offset, r.header.data_size)
    THEN r
    ELSE [r EXCEPT !.v1_reader =
             V1ReceiveData(r.v1_reader,
                 Take(buf, Min(Len(buf),
                               AddSat(r.header.data_offset, r.header.data_size)
                                   - (pos - r.header.data_offset))),
                 pos - r.header.data_offset)]

(* receive_data returns nothing: whether the call panics is told by        *)
(* V2ReceiveDataPanics, and V2ReceiveData is the reader after a call that  *)
(* does not.  In state HeaderV2 or HeaderV1 a sum data_offset + data_size  *)
(* that wraps around panics with overflow checks; without them the         *)
(* window's end lies before its start and every chunk is dropped.          *)
V2ReceiveDataPanics(r) ==
    /\ r.state # "NoHeader"
    /\ SumWraps(r.header.data_offset, r.header.data_size)
    /\ build = "debug"

V2ReceiveData(r, buf, pos) ==
    IF r.state = "NoHeader"
    THEN IF pos # r.start + Len(r.data) THEN r
         ELSE [r EXCEPT !.data = r.data \o buf]
    ELSE IF SumWraps(r.header.data_offset, r.header.data_size) THEN r
    ELSE LET v1_data_start == r.header.data_offset
             v1_data_end   == AddSat(v1_data_start, r.header.data_size)
         IN  IF pos < v1_data_start \/ pos >= v1_data_end THEN r
             ELSE LET pos2 == pos - v1_data_start
                      len  == Min(Len(buf), v1_data_end - pos2)
                  IN  [r EXCEPT !.v1_reader =
                                    V1ReceiveData(r.v1_reader, Take(buf, len), pos2)]

(* An error mapping that leaves the offset relative to the payload.        *)
V2MapErrUnshifted(res, data_offset) ==
    IF res.kind = "InvalidVersion" THEN Err("InvalidFormat") ELSE res

(* The error mapping of read_header, find_section and seek_first_section.  *)
V2MapErr(res, data_offset) ==
    IF res.kind = "InvalidVersion" THEN Err("InvalidFormat")
    ELSE IF res.kind = "InsufficientData"
    THEN InsufficientData(data_offset + res.offset, res.hint)
    ELSE res

V2Locate(res, data_offset) ==
    IF res.kind = "Ok"
    THEN OkSection(res.section,
                   SectionLocation(data_offset + res.location.offset,
                                   res.location.length))
    ELSE res

V2ReadHeader(r) ==
    IF r.state = "NoHeader"
    THEN IF Len(r.data) < 51
         THEN Ret(r, InsufficientData(Len(r.data), 51 - Len(r.data)))
         ELSE IF Slice(r.data, 0, 11) # CAR_V2_PRAGMA
         THEN Ret(r, Err("InvalidVersion"))
         ELSE Bind(CarV2HeaderFromBytes(Slice(r.data, 11, 51)), LAMBDA header :
              IF Len(r.data) > header.data_offset
                   /\ SumWraps(header.data_offset, header.data_size)
              THEN Ret(r, Err("Panic"))     \* the sum, or the slice that ends before it starts
              ELSE
              Bind(IF Len(r.data) > header.data_offset
                   THEN V1ReceiveData(V1New,
                            Slice(r.data, header.data_offset,
                                  Min(AddSat(header.data_offset, header.data_size),
                                      Len(r.data))),
                            0)
                   ELSE V1New,
                   LAMBDA v1_reader :
              Bind(V1ReadHeader(v1_reader), LAMBDA h :
                  IF h.res.kind = "Ok"
                  THEN Ret(V2HeaderState("HeaderV1", header, h.rd), Ok)
                  ELSE Ret(V2HeaderState("HeaderV2", header, h.rd),
                           V2MapErr(h.res, header.data_offset)))))
    ELSE IF r.state = "HeaderV2"
    THEN Bind(V1ReadHeader(r.v1_reader), LAMBDA h :
             IF h.res.kind = "Ok"
             THEN Ret(V2HeaderState("HeaderV1", r.header, h.rd), Ok)
             ELSE Ret([r EXCEPT !.v1_reader = h.rd],
                      V2MapErr(h.res, r.header.data_offset)))
    ELSE Ret(r, Ok)

V2FindSection(r, cid) ==
    IF r.state = "HeaderV1"
    THEN Bind(V1FindSection(r.v1_reader, cid), LAMBDA f :
             Ret([r EXCEPT !.v1_reader = f.rd],
                 V2MapErr(V2Locate(f.res, r.header.data_offset),
                          r.header.data_offset)))
    ELSE Ret(r, Err("PreconditionNotMet"))

V2ReadSection(r) ==
    IF r.state = "HeaderV1"
    THEN Bind(V1ReadSection(r.v1_reader), LAMBDA s :
             Ret([r EXCEPT !.v1_reader = s.rd],
                 IF s.res.kind = "InvalidVersion" THEN Err("InvalidFormat")
                 ELSE IF s.res.kind = "InsufficientData"
                 THEN IF s.res.offset < r.header.data_size
                      THEN InsufficientData(r.header.data_offset + s.res.offset,
                                            s.res.hint)
                      ELSE Err("EndOfSections")
                 ELSE V2Locate(s.res, r.header.data_offset)))
    ELSE Ret(r, Err("PreconditionNotMet"))

V2SeekFirstSection(r) ==
    IF r.state = "HeaderV1"
    THEN Bind(V1SeekFirstSection(r.v1_reader), LAMBDA s :
             Ret([r EXCEPT !.v1_reader = s.rd],
                 V2MapErr(s.res, r.header.data_offset)))
    ELSE Ret(r, Err("PreconditionNotMet"))

---------------------------------------------------------------------------
(* read.rs: the unified reader.  inner is the v1 reader in state V1, the   *)
(* v2 reader in state V2.                                                  *)

UNew == [state |-> "Unclear", buffer |-> <<>>, inner |-> V1New]

(* A determine_format that compares one byte less than the pragma has.    *)
UDetermineFormatShort(bytes) ==
    IF Len(bytes) >= Len(CAR_V2_PRAGMA)
    THEN IF StartsWith(bytes, Take(CAR_V2_PRAGMA, Len(CAR_V2_PRAGMA) - 1))
         THEN "V2" ELSE "V1"
    ELSE "None"

UDetermineFormat(bytes) ==
    IF Len(bytes) >= Len(CAR_V2_PRAGMA)
    THEN IF StartsWith(bytes, CAR_V2_PRAGMA) THEN "V2" ELSE "V1"
    ELSE "None"

UGetFormat(u) == IF u.state = "Unclear" THEN "None" ELSE u.state

(* A receive_data that hands the inner reader only the chunk at which the  *)
(* format was decided.                                                     *)
UReceiveDataChunkOnly(u, buf, pos) ==
    IF u.state = "Unclear"
    THEN IF pos # Len(u.buffer) THEN u
         ELSE Bind(u.buffer \o buf, LAMBDA buffer :
              Bind(UDetermineFormat(buffer), LAMBDA format :
                  IF format = "V1"
                  THEN [state |-> "V1", buffer |-> <<>>,
                        inner |-> V1ReceiveData(V1New, buf, 0)]
                  ELSE IF format = "V2"
                  THEN [state |-> "V2", buffer |-> <<>>,
                        inner |-> V2ReceiveData(V2New, buf, 0)]
                  ELSE [u EXCEPT !.buffer = buffer]))
    ELSE IF u.state = "V1"
    THEN [u EXCEPT !.inner = V1ReceiveData(u.inner, buf, pos)]
    ELSE [u EXCEPT !.inner = V2ReceiveData(u.inner, buf, pos)]

UReceiveData(u, buf, pos) ==
    IF u.state = "Unclear"
    THEN IF pos # Len(u.buffer) THEN u
         ELSE Bind(u.buffer \o buf, LAMBDA buffer :
              Bind(UDetermineFormat(buffer), LAMBDA format :
                  IF format = "V1"
                  THEN [state |-> "V1", buffer |-> <<>>,
                        inner |-> V1ReceiveData(V1New, buffer, 0)]
                  ELSE IF format = "V2"
                  THEN [state |-> "V2", buffer |-> <<>>,
                        inner |-> V2ReceiveData(V2New, buffer, 0)]
                  ELSE [u EXCEPT !.buffer = buffer]))
    ELSE IF u.state = "V1"
    THEN [u EXCEPT !.inner = V1ReceiveData(u.inner, buf, pos)]
    ELSE [u EXCEPT !.inner = V2ReceiveData(u.inner, buf, pos)]

UHasHeader(u) ==
    IF u.state = "Unclear" THEN FALSE
    ELSE IF u.state = "V1" THEN V1HasHeader(u.inner)
    ELSE V2HasHeader(u.inner)

UWrap(u, ret) == Bind(ret, LAMBDA inner : Ret([u EXCEPT !.inner = inner.rd], inner.res))

UReadHeader(u) ==
    IF u.state = "Unclear" THEN Ret(u, InsufficientData(0, 12))
    ELSE IF u.state = "V1" THEN UWrap(u, V1ReadHeader(u.inner))
    ELSE UWrap(u, V2ReadHeader(u.inner))

UFindSection(u, cid) ==
    IF u.state = "Unclear" THEN Ret(u, Err("PreconditionNotMet"))
    ELSE IF u.state = "V1" THEN UWrap(u, V1FindSection(u.inner, cid))
    ELSE UWrap(u, V2FindSection(u.inner, cid))

(* A read_section that asks for the format bytes instead of refusing.      *)
UReadSectionAsking(u) ==
    IF u.state = "Unclear" THEN Ret(u, InsufficientData(0, 12))
    ELSE IF u.state = "V1" THEN UWrap(u, V1ReadSection(u.inner))
    ELSE UWrap(u, V2ReadSection(u.inner))

UReadSection(u) ==
    IF u.state = "Unclear" THEN Ret(u, Err("PreconditionNotMet"))
    ELSE IF u.state = "V1" THEN UWrap(u, V1ReadSection(u.inner))
    ELSE UWrap(u, V2ReadSection(u.inner))

USeekFirstSection(u) ==
    IF u.state = "Unclear" THEN Ret(u, Err("PreconditionNotMet"))
    ELSE IF u.state = "V1" THEN UWrap(u, V1SeekFirstSection(u.inner))
    ELSE UWrap(u, V2SeekFirstSection(u.inner))

(* header() of the three readers: Option is the field some.  The v1        *)
(* header is returned without the size stored beside it.                   *)
NoHeaders == [some |-> FALSE, v1 |-> NoCarHeader, has_v2 |-> FALSE, v2 |-> NoV2Header]

V1Header(r) ==
    IF r.header.present
    THEN [some |-> TRUE, v1 |-> [r.header EXCEPT !.size = 0],
          has_v2 |-> FALSE, v2 |-> NoV2Header]
    ELSE NoHeaders

V2Header(r) ==
    IF r.state = "HeaderV1"
    THEN [some |-> TRUE, v1 |-> V1Header(r.v1_reader).v1,
          has_v2 |-> TRUE, v2 |-> r.header]
    ELSE NoHeaders

UHeader(u) ==
    IF u.state = "Unclear" THEN NoHeaders
    ELSE IF u.state = "V1" THEN V1Header(u.inner)
    ELSE V2Header(u.inner)

---------------------------------------------------------------------------
(* The caller's side: the reader it drives, by kind.                       *)

New(k) == IF k = "v1" THEN V1New ELSE IF k = "v2" THEN V2New ELSE UNew

ReceiveData(k, r, buf, pos) ==
    IF k = "v1" THEN V1ReceiveData(r, buf, pos)
    ELSE IF k = "v2" THEN V2ReceiveData(r, buf, pos)
    ELSE UReceiveData(r, buf, pos)

ReadHeader(k, r) ==
    IF k = "v1" THEN V1ReadHeader(r)
    ELSE IF k = "v2" THEN V2ReadHeader(r)
    ELSE UReadHeader(r)

ReadSection(k, r) ==
    IF k = "v1" THEN V1ReadSection(r)
    ELSE IF k = "v2" THEN V2ReadSection(r)
    ELSE UReadSection(r)

FindSection(k, r, cid) ==
    IF k = "v1" THEN V1FindSection(r, cid)
    ELSE IF k = "v2" THEN V2FindSection(r, cid)
    ELSE UFindSection(r, cid)

SeekFirstSection(k, r) ==
    IF k = "v1" THEN V1SeekFirstSection(r)
    ELSE IF k = "v2" THEN V2SeekFirstSection(r)
    ELSE USeekFirstSection(r)

ReceiveDataPanics(k, r) ==
    IF k = "v2" THEN V2ReceiveDataPanics(r)
    ELSE IF k = "u" /\ r.state = "V2" THEN V2ReceiveDataPanics(r.inner)
    ELSE FALSE

(* The embedded v1 reader of a reader, when it has one.                    *)
HasInnerV1(k, r) ==
    \/ k = "v1"
    \/ k = "v2" /\ r.state # "NoHeader"
    \/ k = "u" /\ r.state = "V1"
    \/ k = "u" /\ r.state = "V2" /\ r.inner.state # "NoHeader"

InnerV1(k, r) ==
    IF k = "v1" THEN r
    ELSE IF k = "v2" THEN r.v1_reader
    ELSE IF r.state = "V1" THEN r.inner
    ELSE r.inner.v1_reader

(* The v2 reader of a reader, when it has one.                             *)
HasV2(k, r) == k = "v2" \/ (k = "u" /\ r.state = "V2")

TheV2(k, r) == IF k = "v2" THEN r ELSE r.inner

---------------------------------------------------------------------------
(* The streams the caller reads.  Each is a record: its bytes, the roots   *)
(* and sections it was made from, and base, the offset of its v1 payload.  *)

CidA == <<1, 85, 18, 1, 170>>            \* CIDv1, raw, sha2-256, 1-byte digest

CidB == <<1, 113, 18, 2, 187, 188>>      \* CIDv1, dag-cbor, 2-byte digest

CidV0 == <<18, 32>> \o Repeat(7, 32)     \* CIDv0, 34 bytes

CidAbsent == <<1, 85, 18, 1, 171>>

Cids == {CidA, CidB, CidV0, CidAbsent}

SecA == SectionNew(CidA, <<98, 101, 97, 114>>)

SecB == SectionNew(CidB, <<>>)

SecA2 == SectionNew(CidA, <<99>>)

SecV0 == SectionNew(CidV0, <<1, 2>>)

(* A block whose bytes read as a section with a two-byte length prefix     *)
(* 85 00 (the value 5), the CID 01 55 12 00 and a one-byte block.          *)
SecNested == SectionNew(CidB, <<133, 0, 1, 85, 18, 0, 255>>)

RECURSIVE SectionsToBytes(_)
SectionsToBytes(sections) ==
    IF sections = <<>> THEN <<>>
    ELSE SectionToBytes(Head(sections)) \o SectionsToBytes(Tail(sections))

(* The header as the fixture of wire/v1/header.rs has it: roots first.     *)
FixtureHeaderBytes(roots) ==
    <<162>> \o TextRoots \o <<128 + Len(roots)>> \o CborLinks(roots)
            \o TextVersion \o <<1>>

Framed(header_bytes) == UVarintEncode(Len(header_bytes)) \o header_bytes

V1Bytes(header_bytes, sections) == Framed(header_bytes) \o SectionsToBytes(sections)

Stream(bytes, roots, sections, base, payload_len) ==
    [bytes |-> bytes, roots |-> roots, sections |-> sections,
     base |-> base, payload_len |-> payload_len]

V1Stream(header_bytes, roots, sections) ==
    LET b == V1Bytes(header_bytes, sections)
    IN  Stream(b, roots, sections, 0, Len(b))

(* An index as the fixture of wire/v2/mod.rs has it: one bucket of entries *)
(* of width 9 (a 1-byte digest and a u64 offset).                          *)
IndexBytes ==
    ToLeBytes(1, 4) \o ToLeBytes(9, 4) \o ToLeBytes(9, 8) \o <<170>> \o ToLeBytes(27, 8)

V2Stream(pragma, payload, index) ==
    LET data_size == Len(payload.bytes)
        header    == CarV2Header(0, 51, data_size,
                                 IF index = <<>> THEN 0 ELSE 51 + data_size)
    IN  Stream(pragma \o CarV2HeaderToBytes(header) \o payload.bytes \o index,
               payload.roots, payload.sections, 51, data_size)

StreamA == V1Stream(FixtureHeaderBytes(<<CidA>>), <<CidA>>, <<SecA, SecB, SecA2>>)

StreamB == V1Stream(CarHeaderSerialize(CarHeaderNew(<<>>)), <<>>, <<SecV0, SecNested>>)

StreamC == V1Stream(CarHeaderSerialize(CarHeaderNew(<<CidB>>)), <<CidB>>, <<SecB>>)

StreamV2A == V2Stream(CAR_V2_PRAGMA, StreamA, IndexBytes)

StreamV2C == V2Stream(CAR_V2_PRAGMA, StreamC, <<>>)

FlipBit(byte, bit) ==
    IF (byte \div Pow2(bit)) % 2 = 1 THEN byte - Pow2(bit) ELSE byte + Pow2(bit)

FlippedPragma(i, bit) ==
    [CAR_V2_PRAGMA EXCEPT ![i] = FlipBit(CAR_V2_PRAGMA[i], bit)]

(* A v2 stream whose pragma differs in one bit.                            *)
StreamFlipped(i, bit) ==
    LET s == V2Stream(FlippedPragma(i, bit), StreamC, <<>>)
    IN  Stream(s.bytes, <<>>, <<>>, 0, 0)

FlippedStreams == {StreamFlipped(i, bit) : i \in 1..11, bit \in 0..7}

WellFormed(k) ==
    IF k = "v1" THEN {StreamA, StreamB}
    ELSE IF k = "v2" THEN {StreamV2A, StreamV2C}
    ELSE {StreamA, StreamV2A}

---------------------------------------------------------------------------
(* Bounds of the exploration.                                              *)

MidChunk == 7

BigChunk == 50

ChunkSizes == {1, MidChunk, BigChunk}

Builds == {"debug", "release"}

---------------------------------------------------------------------------
(* The record of the last call: the operation, the position and chunk of a *)
(* receive_data, the CID of a find_section, and the result returned.       *)

Call(op, pos, buf, cid, res) ==
    [op |-> op, pos |-> pos, buf |-> buf, cid |-> cid, res |-> res]

NoCall == Call("new", 0, <<>>, <<>>, Ok)

(* The position at which the reader appends rather than repositions.       *)
NextPos(k, r) ==
    IF k = "v1" THEN r.start + Len(r.data)
    ELSE IF k = "v2"
    THEN IF r.state = "NoHeader" THEN r.start + Len(r.data)
         ELSE r.header.data_offset + r.v1_reader.start + Len(r.v1_reader.data)
    ELSE IF r.state = "Unclear" THEN Len(r.buffer)
    ELSE IF r.state = "V1" THEN r.inner.start + Len(r.inner.data)
    ELSE IF r.inner.state = "NoHeader" THEN r.inner.start + Len(r.inner.data)
    ELSE r.inner.header.data_offset + r.inner.v1_reader.start
             + Len(r.inner.v1_reader.data)

(* Offsets of the stream a caller may jump to: the start of each section   *)
(* and of each block, the start of the payload and its end.                *)
RECURSIVE SectionStarts(_, _)
SectionStarts(sections, at) ==
    IF sections = <<>> THEN {at}
    ELSE {at, at + SectionTotalLength(Head(sections)) - Len(Head(sections).block)}
         \cup SectionStarts(Tail(sections),
                            at + SectionTotalLength(Head(sections)))

FirstSectionOffset(s) ==
    s.base + s.payload_len - Len(SectionsToBytes(s.sections))

JumpPoints(s) ==
    {p \in {0, s.base} \cup SectionStarts(s.sections, FirstSectionOffset(s)) :
        p < Len(s.bytes)}

Crashed(res) == res.kind = "Panic"

---------------------------------------------------------------------------
(* The free caller: any sequence of receive_data at correct positions      *)
(* (the bytes handed over are the stream's bytes at that position),        *)
(* read_header, read_section, find_section and seek_first_section.         *)

InitWriterIdle ==
    /\ wr = [data |-> <<>>, offset |-> 0, capacity |-> 0]
    /\ sink = <<>>
    /\ written = <<>>

FreeStreams(k) ==
    IF k = "v1" THEN {StreamA, StreamB}
    ELSE IF k = "v2" THEN {StreamV2A, StreamV2C, StreamFlipped(1, 0)}
    ELSE {StreamA, StreamV2C} \cup FlippedStreams

InitRd ==
    /\ kind \in {"v1", "v2", "u"}
    /\ S \in FreeStreams(kind)
    /\ build \in Builds
    /\ rd = New(kind)
    /\ last = NoCall
    /\ pc = "free"
    /\ log = <<>>
    /\ InitWriterIdle

Receive ==
    /\ pc = "free"
    /\ \E pos \in {NextPos(kind, rd)} \cup JumpPoints(S)
                  \cup (IF last.res.kind = "InsufficientData"
                        THEN {last.res.offset} ELSE {}),
          n \in ChunkSizes :
          /\ pos < Len(S.bytes)
          /\ \E buf \in {Slice(S.bytes, pos, pos + n)} :
                /\ rd' = ReceiveData(kind, rd, buf, pos)
                /\ last' = Call("receive_data", pos, buf, <<>>, Ok)
    /\ pc' = IF ReceiveDataPanics(kind, rd) THEN "crashed" ELSE pc
    /\ UNCHANGED <<S, kind, log, build, wr, sink, written>>

Returned(op, cid, returned) ==
    \E ret \in {returned} :
       /\ rd' = ret.rd
       /\ last' = Call(op, 0, <<>>, cid, ret.res)
       /\ pc' = IF Crashed(ret.res) THEN "crashed" ELSE pc

DoReadHeader ==
    /\ pc = "free"
    /\ Returned("read_header", <<>>, ReadHeader(kind, rd))
    /\ UNCHANGED <<S, kind, log, build, wr, sink, written>>

DoReadSection ==
    /\ pc = "free"
    /\ Returned("read_section", <<>>, ReadSection(kind, rd))
    /\ UNCHANGED <<S, kind, log, build, wr, sink, written>>

DoFindSection ==
    /\ pc = "free"
    /\ \E cid \in Cids : Returned("find_section", cid, FindSection(kind, rd, cid))
    /\ UNCHANGED <<S, kind, log, build, wr, sink, written>>

DoSeekFirstSection ==
    /\ pc = "free"
    /\ Returned("seek_first_section", <<>>, SeekFirstSection(kind, rd))
    /\ UNCHANGED <<S, kind, log, build, wr, sink, written>>

NextRd ==
    \/ Receive
    \/ DoReadHeader
    \/ DoReadSection
    \/ DoFindSection
    \/ DoSeekFirstSection

SpecRd == InitRd /\ [][NextRd]_vars

---------------------------------------------------------------------------
(* The pull protocol, as the tests of wire/v1/mod.rs and wire/v2/mod.rs    *)
(* drive it: call read_header, then read_section in a loop; on             *)
(* InsufficientData(offset, _) hand over the next chunk of the stream      *)
(* starting at offset and retry.  The loop ends at the first other error,  *)
(* or when the offset asked for is at or past the end of the stream.       *)

Entry(res) == [section |-> res.section, location |-> res.location]

CanFeed(s, res) == res.kind = "InsufficientData" /\ res.offset < Len(s.bytes)

InitPull ==
    /\ kind \in {"v1", "v2", "u"}
    /\ S \in WellFormed(kind)
    /\ build \in Builds
    /\ rd = New(kind)
    /\ last = NoCall
    /\ pc = "header"
    /\ log = <<>>
    /\ InitWriterIdle

PullReadHeader ==
    /\ pc = "header"
    /\ \E ret \in {ReadHeader(kind, rd)} :
          /\ rd' = ret.rd
          /\ last' = Call("read_header", 0, <<>>, <<>>, ret.res)
          /\ pc' = IF ret.res.kind = "Ok" THEN "sections"
                   ELSE IF CanFeed(S, ret.res) THEN "feed_header"
                   ELSE IF Crashed(ret.res) THEN "crashed"
                   ELSE "done"
    /\ UNCHANGED <<S, kind, log, build, wr, sink, written>>

PullReadSection ==
    /\ pc = "sections"
    /\ \E ret \in {ReadSection(kind, rd)} :
          /\ rd' = ret.rd
          /\ last' = Call("read_section", 0, <<>>, <<>>, ret.res)
          /\ log' = IF ret.res.kind = "Ok" THEN Append(log, Entry(ret.res)) ELSE log
          /\ pc' = IF ret.res.kind = "Ok" THEN "sections"
                   ELSE IF CanFeed(S, ret.res) THEN "feed_sections"
                   ELSE IF Crashed(ret.res) THEN "crashed"
                   ELSE "done"
    /\ UNCHANGED <<S, kind, build, wr, sink, written>>

PullFeed ==
    /\ pc \in {"feed_header", "feed_sections"}
    /\ \E n \in ChunkSizes :
          \E buf \in {Slice(S.bytes, last.res.offset, last.res.offset + n)} :
             /\ rd' = ReceiveData(kind, rd, buf, last.res.offset)
             /\ last' = Call("receive_data", last.res.offset, buf, <<>>, last.res)
    /\ pc' = IF ReceiveDataPanics(kind, rd) THEN "crashed"
             ELSE IF pc = "feed_header" THEN "header" ELSE "sections"
    /\ UNCHANGED <<S, kind, log, build, wr, sink, written>>

NextPull ==
    \/ PullReadHeader
    \/ PullReadSection
    \/ PullFeed

SpecPull == InitPull /\ [][NextPull]_vars

(* The caller never stops in the middle of the header loop: there, every   *)
(* step of NextPull is a step of HeaderLoop, and one is always possible.   *)
HeaderLoop ==
    /\ pc \in {"header", "feed_header"}
    /\ pc' \in {"header", "feed_header", "sections", "done", "crashed"}

SpecPullFair == SpecPull /\ WF_pc(HeaderLoop)

(* The same loop with the whole stream handed over in one receive_data     *)
(* call at position 0: the header call's result, the sections read and the *)
(* result that ended the loop.                                             *)
RECURSIVE OneShotSections(_, _, _)
OneShotSections(k, r, acc) ==
    LET ret == ReadSection(k, r)
    IN  IF ret.res.kind = "Ok"
        THEN OneShotSections(k, ret.rd, Append(acc, Entry(ret.res)))
        ELSE [rd |-> ret.rd, sections |-> acc, end |-> ret.res]

OneShot(k, s) ==
    LET fed == ReceiveData(k, New(k), s.bytes, 0)
        h   == ReadHeader(k, fed)
    IN  IF h.res.kind = "Ok"
        THEN LET run == OneShotSections(k, h.rd, <<>>)
             IN  [header |-> h.res, rd |-> run.rd,
                  sections |-> run.sections, end |-> run.end]
        ELSE [header |-> h.res, rd |-> h.rd, sections |-> <<>>, end |-> h.res]

(* The sections a stream was made from, each at its place in the stream.   *)
RECURSIVE Located(_, _)
Located(sections, at) ==
    IF sections = <<>> THEN <<>>
    ELSE <<[section  |-> Head(sections),
            location |-> SectionLocation(at, SectionTotalLength(Head(sections)))]>>
         \o Located(Tail(sections), at + SectionTotalLength(Head(sections)))

Expected(s) == Located(s.sections, FirstSectionOffset(s))

IsPrefix(p, s) == Len(p) <= Len(s) /\ p = Take(s, Len(p))

---------------------------------------------------------------------------
(* The header loop of test_car_v2_header_deserialization_partial: on       *)
(* InsufficientData(offset, hint) the caller hands over exactly the bytes  *)
(* [offset, offset + hint) of the stream, cut at its end, and calls        *)
(* read_header again.  The reader starts with any prefix of the stream.    *)

PadLen == 9

(* A v2 stream whose payload starts PadLen bytes after the v2 header.      *)
StreamV2Pad ==
    Stream(CAR_V2_PRAGMA
               \o CarV2HeaderToBytes(CarV2Header(0, 51 + PadLen, Len(StreamC.bytes), 0))
               \o [i \in 1..PadLen |-> 0] \o StreamC.bytes,
           StreamC.roots, StreamC.sections, 51 + PadLen, Len(StreamC.bytes))

HintStreams == {StreamV2A, StreamV2C, StreamV2Pad}

InitHint ==
    /\ kind = "v2"
    /\ S \in HintStreams
    /\ build \in Builds
    /\ \E n \in 0..Len(S.bytes) : rd = V2ReceiveData(V2New, Take(S.bytes, n), 0)
    /\ last = NoCall
    /\ pc = "header"
    /\ log = <<>>
    /\ InitWriterIdle

HintFeed ==
    /\ pc = "feed_header"
    /\ \E buf \in {Slice(S.bytes, last.res.offset, last.res.offset + last.res.hint)} :
          /\ rd' = ReceiveData(kind, rd, buf, last.res.offset)
          /\ last' = Call("receive_data", last.res.offset, buf, <<>>, last.res)
    /\ pc' = IF ReceiveDataPanics(kind, rd) THEN "crashed" ELSE "header"
    /\ UNCHANGED <<S, kind, log, build, wr, sink, written>>

NextHint ==
    \/ PullReadHeader
    \/ HintFeed

SpecHint == InitHint /\ [][NextHint]_vars

SpecHintFair == SpecHint /\ WF_pc(HeaderLoop)

---------------------------------------------------------------------------
(* The pull protocol with find_section, as test_car_v1_reader_find_block   *)
(* drives it: after the header loop the caller reads sections, seeks back  *)
(* to the first section, or looks for a CID, handing over the next chunk   *)
(* at the offset asked for and retrying the same call.  log is what        *)
(* read_section and find_section have returned since the last seek.        *)

PullFound(ret, cid) ==
    /\ rd' = ret.rd
    /\ last' = Call("find_section", 0, <<>>, cid, ret.res)
    /\ log' = IF ret.res.kind = "Ok" THEN Append(log, Entry(ret.res)) ELSE log
    /\ pc' = IF ret.res.kind = "Ok" THEN "sections"
             ELSE IF CanFeed(S, ret.res) THEN "feed_find"
             ELSE IF Crashed(ret.res) THEN "crashed"
             ELSE "done"

PullFindSection ==
    /\ pc = "sections"
    /\ \E cid \in Cids :
          \E ret \in {FindSection(kind, rd, cid)} : PullFound(ret, cid)
    /\ UNCHANGED <<S, kind, build, wr, sink, written>>

PullFindAgain ==
    /\ pc = "find"
    /\ \E ret \in {FindSection(kind, rd, last.cid)} : PullFound(ret, last.cid)
    /\ UNCHANGED <<S, kind, build, wr, sink, written>>

PullFeedFind ==
    /\ pc = "feed_find"
    /\ \E n \in ChunkSizes :
          \E buf \in {Slice(S.bytes, last.res.offset, last.res.offset + n)} :
             /\ rd' = ReceiveData(kind, rd, buf, last.res.offset)
             /\ last' = Call("receive_data", last.res.offset, buf, last.cid, last.res)
    /\ pc' = IF ReceiveDataPanics(kind, rd) THEN "crashed" ELSE "find"
    /\ UNCHANGED <<S, kind, log, build, wr, sink, written>>

PullSeekFirstSection ==
    /\ pc = "sections"
    /\ \E ret \in {SeekFirstSection(kind, rd)} :
          /\ rd' = ret.rd
          /\ last' = Call("seek_first_section", 0, <<>>, <<>>, ret.res)
          /\ pc' = IF ret.res.kind = "Ok" THEN "sections" ELSE "done"
    /\ log' = <<>>
    /\ UNCHANGED <<S, kind, build, wr, sink, written>>

NextFind ==
    \/ PullReadHeader
    \/ PullReadSection
    \/ PullFeed
    \/ PullFindSection
    \/ PullFindAgain
    \/ PullFeedFind
    \/ PullSeekFirstSection

SpecFind == InitPull /\ [][NextFind]_vars

---------------------------------------------------------------------------
(* wire/v1/write.rs: the v1 writer.  capacity is data.capacity(), which    *)
(* neither splice nor drain changes while the buffer stays within it.      *)

W1WriteHeader(w, header) ==
    LET data == w.data \o CarHeaderSerialize(header)
    IN  [w EXCEPT !.data = UVarintEncode(Len(data)) \o data]

W1WithBufferSize(roots, buffer_size) ==
    W1WriteHeader([data |-> <<>>, offset |-> 0, capacity |-> buffer_size],
                  CarHeaderNew(roots))

W1New(roots) == W1WithBufferSize(roots, 16 * 1024 * 1024)

WriteResult(k, n, location) == Result(k, 0, n, NoSection, location)

(* A write_section that forgets the bytes still buffered.                  *)
W1WriteSectionNoDataPos(w, section) ==
    IF Len(w.data) + SectionTotalLength(section) > w.capacity
    THEN [wr |-> w, res |-> WriteResult("BufferFull", 0, NoLocation)]
    ELSE [wr  |-> [w EXCEPT !.data = w.data \o SectionToBytes(section)],
          res |-> WriteResult("Ok", 0,
                      SectionLocation(w.offset, Len(SectionToBytes(section))))]

(* A write_section that refuses a section filling the buffer exactly.      *)
W1WriteSectionNoExactFit(w, section) ==
    IF Len(w.data) + SectionTotalLength(section) >= w.capacity
    THEN [wr |-> w, res |-> WriteResult("BufferFull", 0, NoLocation)]
    ELSE [wr  |-> [w EXCEPT !.data = w.data \o SectionToBytes(section)],
          res |-> WriteResult("Ok", 0,
                      SectionLocation(AddSat(w.offset, Len(w.data)),
                                      Len(SectionToBytes(section))))]

W1WriteSection(w, section) ==
    LET data_pos     == Len(w.data)
        section_size == SectionTotalLength(section)
    IN  IF data_pos + section_size > w.capacity
        THEN [wr |-> w, res |-> WriteResult("BufferFull", 0, NoLocation)]
        ELSE LET section_bytes == SectionToBytes(section)
             IN  [wr  |-> [w EXCEPT !.data = w.data \o section_bytes],
                  res |-> WriteResult("Ok", 0,
                              SectionLocation(AddSat(w.offset, data_pos),
                                              Len(section_bytes)))]

(* A send_data that copies the bytes out but leaves them buffered.         *)
W1SendDataNoDrain(w, buf_len) ==
    [wr   |-> [w EXCEPT !.offset = AddSat(w.offset, Min(Len(w.data), buf_len))],
     sent |-> Take(w.data, Min(Len(w.data), buf_len)),
     n    |-> Min(Len(w.data), buf_len)]

(* send_data(buf) with |buf| = buf_len: the bytes copied into buf and the  *)
(* count returned.                                                         *)
W1SendData(w, buf_len) ==
    LET bytes_to_send == Min(Len(w.data), buf_len)
    IN  [wr   |-> [w EXCEPT !.data   = Drop(w.data, bytes_to_send),
                            !.offset = AddSat(w.offset, bytes_to_send)],
         sent |-> Take(w.data, bytes_to_send),
         n    |-> bytes_to_send]

W1HasDataToSend(w) == w.data # <<>>

---------------------------------------------------------------------------
(* The caller of the v1 writer: any interleaving of write_section and      *)
(* send_data, as in test_car_writer.  sink is everything send_data has     *)
(* emitted; written is each section written with the location returned.    *)

BufferSize == 257

SmallSink == 7

TestSink == 32

BigSink == 300

SinkSizes == {0, SmallSink, TestSink, BigSink}

MaxSections == 3

SecBig == SectionNew(CidV0, Repeat(5, 100))

WriterSections == {SecA, SecB, SecBig}

WriterRoots == {<<>>, <<CidV0, CidA>>}

InitW1 ==
    /\ kind = "w1"
    /\ \E roots \in WriterRoots :
          /\ S = Stream(<<>>, roots, <<>>, 0, 0)
          /\ wr = W1WithBufferSize(roots, BufferSize)
    /\ build \in Builds
    /\ sink = <<>>
    /\ written = <<>>
    /\ rd = V1New
    /\ last = NoCall
    /\ pc = "write"
    /\ log = <<>>

DoWriteSection ==
    /\ pc = "write"
    /\ Len(written) < MaxSections
    /\ \E section \in WriterSections :
          \E ret \in {W1WriteSection(wr, section)} :
             /\ wr' = ret.wr
             /\ written' = IF ret.res.kind = "Ok"
                           THEN Append(written, [section  |-> section,
                                                 location |-> ret.res.location])
                           ELSE written
             /\ last' = Call("write_section", 0, <<>>, section.cid, ret.res)
    /\ UNCHANGED <<S, kind, rd, pc, log, build, sink>>

DoSendData ==
    /\ pc = "write"
    /\ \E buf_len \in SinkSizes :
          \E ret \in {W1SendData(wr, buf_len)} :
             /\ wr' = ret.wr
             /\ sink' = sink \o ret.sent
             /\ last' = Call("send_data", buf_len, ret.sent, <<>>,
                             WriteResult("Ok", ret.n, NoLocation))
    /\ UNCHANGED <<S, kind, rd, pc, log, build, written>>

NextW1 ==
    \/ DoWriteSection
    \/ DoSendData

SpecW1 == InitW1 /\ [][NextW1]_vars

(* H || s1.to_bytes() || s2.to_bytes() || ... for the sections written.    *)
RECURSIVE EntriesToBytes(_)
EntriesToBytes(entries) ==
    IF entries = <<>> THEN <<>>
    ELSE SectionToBytes(Head(entries).section) \o EntriesToBytes(Tail(entries))

WholeOutput == Framed(CarHeaderSerialize(CarHeaderNew(S.roots))) \o EntriesToBytes(written)

(* Reading back everything emitted with the v1 reader.                     *)
ReadBack == OneShot("v1", Stream(sink, <<>>, <<>>, 0, Len(sink)))

---------------------------------------------------------------------------
(* wire/v2/write.rs: the CAR v2 writer.  phase is the type parameter of    *)
(* CarWriter<S>; data_start, inner_written_bytes and inner are             *)
(* SectionWritingState's, data, data_start, data_end, index_start and      *)
(* index_offset IndexWritingState's, header and header_saved               *)
(* FinalizedWritingState's.                                                *)

W2Writer(phase, inner) ==
    [phase |-> phase, inner |-> inner,
     data_start |-> 0, inner_written_bytes |-> 0,
     data |-> <<>>, data_end |-> 0, index_start |-> 0, index_offset |-> 0,
     header |-> NoV2Header, header_saved |-> FALSE]

W2Idle == [data |-> <<>>, offset |-> 0, capacity |-> 0]

W2WithBufferSize(roots, buffer_size) ==
    [W2Writer("SectionWriting", W1WithBufferSize(roots, buffer_size))
        EXCEPT !.data_start = 51]

W2New(roots) == W2WithBufferSize(roots, 16 * 1024 * 1024)

(* A write_section that returns the inner writer's location as it is.      *)
W2WriteSectionInnerLocation(w, section) ==
    Bind(W1WriteSection(w.inner, section), LAMBDA ret :
        [wr  |-> [w EXCEPT !.inner = ret.wr],
         res |-> IF ret.res.kind = "Ok"
                 THEN WriteResult("Ok", 0, ret.res.location)
                 ELSE WriteResult("BufferFull", 0, NoLocation)])

W2WriteSection(w, section) ==
    Bind(W1WriteSection(w.inner, section), LAMBDA ret :
        [wr  |-> [w EXCEPT !.inner = ret.wr],
         res |-> IF ret.res.kind = "Ok"
                 THEN WriteResult("Ok", 0,
                          SectionLocation(AddSat(w.data_start, ret.res.location.offset),
                                          ret.res.location.length))
                 ELSE WriteResult("BufferFull", 0, NoLocation)])

(* The result of a send_data: the bytes copied into buf, and the           *)
(* (offset, length) returned.                                              *)
Sent(w, sent, offset, n, res) ==
    [wr |-> w, sent |-> sent, offset |-> offset, n |-> n, res |-> res]

(* A send_data of the section phase that reports every range at the start  *)
(* of the payload.                                                         *)
W2SendDataSectionsAtStart(w, buf_len) ==
    Bind(W1SendData(w.inner, buf_len), LAMBDA ret :
        Sent([w EXCEPT !.inner = ret.wr,
                       !.inner_written_bytes = AddSat(w.inner_written_bytes, ret.n)],
             ret.sent, w.data_start, ret.n, "Ok"))

W2SendDataSections(w, buf_len) ==
    Bind(W1SendData(w.inner, buf_len), LAMBDA ret :
        Sent([w EXCEPT !.inner = ret.wr,
                       !.inner_written_bytes = AddSat(w.inner_written_bytes, ret.n)],
             ret.sent, AddSat(w.data_start, w.inner_written_bytes), ret.n, "Ok"))

W2SendDataIndex(w, buf_len) ==
    Bind(Min(Len(w.data), buf_len), LAMBDA bytes_to_send :
        IF bytes_to_send = 0 THEN Sent(w, <<>>, 0, 0, "Ok")
        ELSE Sent([w EXCEPT !.data = Drop(w.data, bytes_to_send),
                            !.index_offset = AddSat(w.index_offset, bytes_to_send)],
                  Take(w.data, bytes_to_send),
                  AddSat(w.index_start, w.index_offset), bytes_to_send, "Ok"))

(* With a buf of fewer than 51 bytes the debug_assert! panics in a debug    *)
(* build; otherwise Write for &mut [u8] copies what fits and the call       *)
(* still returns (0, 51).                                                  *)
W2SendDataFinalized(w, buf_len) ==
    IF buf_len < 51 /\ build = "debug" THEN Sent(w, <<>>, 0, 0, "Panic")
    ELSE IF w.header_saved THEN Sent(w, <<>>, 0, 0, "Ok")
    ELSE Sent([w EXCEPT !.header_saved = TRUE],
              Take(CAR_V2_PRAGMA \o CarV2HeaderToBytes(w.header), buf_len),
              0, 51, "Ok")

W2SendData(w, buf_len) ==
    IF w.phase = "SectionWriting" THEN W2SendDataSections(w, buf_len)
    ELSE IF w.phase = "IndexWriting" THEN W2SendDataIndex(w, buf_len)
    ELSE W2SendDataFinalized(w, buf_len)

W2HasDataToSend(w) ==
    IF w.phase = "SectionWriting" THEN W1HasDataToSend(w.inner)
    ELSE IF w.phase = "IndexWriting" THEN Len(w.data) > 0
    ELSE ~w.header_saved

(* A finalize_sections that does not look at the buffer.                   *)
W2FinalizeSectionsUnchecked(w) ==
    [wr  |-> [W2Writer("IndexWriting", W2Idle)
                 EXCEPT !.data_start = w.data_start,
                        !.data_end = AddSat(w.data_start, w.inner_written_bytes)],
     res |-> WriteResult("Ok", 0, NoLocation)]

W2FinalizeSections(w) ==
    IF W2HasDataToSend(w)
    THEN [wr |-> w, res |-> WriteResult("BufferNotFlushed", 0, NoLocation)]
    ELSE [wr  |-> [W2Writer("IndexWriting", W2Idle)
                      EXCEPT !.data_start = w.data_start,
                             !.data_end = AddSat(w.data_start, w.inner_written_bytes)],
          res |-> WriteResult("Ok", 0, NoLocation)]

(* finalize_index (full = FALSE) and finalize_full_index (full = TRUE);    *)
(* has_full_index is bit 0 of the characteristics.                         *)
W2FinalizeIndex(w, full) ==
    IF w.data # <<>>
    THEN [wr |-> w, res |-> WriteResult("BufferNotFlushed", 0, NoLocation)]
    ELSE [wr  |-> [W2Writer("Finalized", W2Idle)
                      EXCEPT !.header =
                          CarV2Header(IF full THEN 1 ELSE 0, w.data_start,
                                      w.data_end - w.data_start, w.index_start)],
          res |-> WriteResult("Ok", 0, NoLocation)]

---------------------------------------------------------------------------
(* The caller of the v2 writer, as in test_car_writer_no_index: any        *)
(* interleaving of write_section and send_data, then finalize_sections,    *)
(* finalize_index or finalize_full_index, and send_data again.  What a     *)
(* send_data returns is copied to the sink at the offset returned, the     *)
(* sink being extended with zeros when it is shorter.  A finalize call     *)
(* consumes the writer: after an error the caller goes on only with a      *)
(* clone made before the call.                                             *)

SinkWrite(s, pos, bytes) ==
    (IF Len(s) < pos THEN s \o [i \in 1..(pos - Len(s)) |-> 0] ELSE Take(s, pos))
        \o bytes \o Drop(s, pos + Len(bytes))

InitW2 ==
    /\ kind = "w2"
    /\ \E roots \in WriterRoots :
          /\ S = Stream(<<>>, roots, <<>>, 0, 0)
          /\ wr = W2WithBufferSize(roots, BufferSize)
    /\ build \in Builds
    /\ sink = <<>>
    /\ written = <<>>
    /\ rd = V2New
    /\ last = NoCall
    /\ pc = "write"
    /\ log = <<>>

DoWriteSectionV2 ==
    /\ pc = "write"
    /\ wr.phase = "SectionWriting"
    /\ Len(written) < MaxSections
    /\ \E section \in WriterSections :
          \E ret \in {W2WriteSection(wr, section)} :
             /\ wr' = ret.wr
             /\ written' = IF ret.res.kind = "Ok"
                           THEN Append(written, [section  |-> section,
                                                 location |-> ret.res.location])
                           ELSE written
             /\ last' = Call("write_section", 0, <<>>, section.cid, ret.res)
    /\ UNCHANGED <<S, kind, rd, pc, log, build, sink>>

DoSendDataV2 ==
    /\ pc = "write"
    /\ \E buf_len \in SinkSizes :
          \E ret \in {W2SendData(wr, buf_len)} :
             /\ wr' = ret.wr
             /\ last' = Call("send_data", buf_len, ret.sent, <<>>,
                             Result(ret.res, ret.offset, ret.n, NoSection, NoLocation))
             /\ IF ret.res = "Panic" \/ ret.n > buf_len
                THEN pc' = "crashed" /\ sink' = sink
                ELSE pc' = pc /\ sink' = SinkWrite(sink, ret.offset, ret.sent)
    /\ UNCHANGED <<S, kind, rd, log, build, written>>

Finalized(op, ret) ==
    /\ last' = Call(op, 0, <<>>, <<>>, ret.res)
    /\ IF ret.res.kind = "Ok"
       THEN wr' = ret.wr /\ pc' = pc
       ELSE wr' = wr /\ pc' \in {pc, "done"}

DoFinalizeSections ==
    /\ pc = "write"
    /\ wr.phase = "SectionWriting"
    /\ Finalized("finalize_sections", W2FinalizeSections(wr))
    /\ UNCHANGED <<S, kind, rd, log, build, sink, written>>

DoFinalizeIndex ==
    /\ pc = "write"
    /\ wr.phase = "IndexWriting"
    /\ \E full \in BOOLEAN :
          Finalized(IF full THEN "finalize_full_index" ELSE "finalize_index",
                    W2FinalizeIndex(wr, full))
    /\ UNCHANGED <<S, kind, rd, log, build, sink, written>>

NextW2 ==
    \/ DoWriteSectionV2
    \/ DoSendDataV2
    \/ DoFinalizeSections
    \/ DoFinalizeIndex

SpecW2 == InitW2 /\ [][NextW2]_vars

---------------------------------------------------------------------------
(* Properties of the readers.                                              *)

SectionReturned ==
    /\ last.op \in {"read_section", "find_section"}
    /\ last.res.kind = "Ok"

(* The bytes of the stream at the location of the section last returned.   *)
Span ==
    Slice(S.bytes, last.res.location.offset,
          last.res.location.offset + last.res.location.length)

TrueSectionAt(offset) ==
    {i \in DOMAIN Expected(S) : Expected(S)[i].location.offset = offset}

(* C1, as stated: every LocatableSection returned by any of the three      *)
(* readers, after any sequence of receive_data at correct positions,       *)
(* read_header, read_section, find_section and seek_first_section,         *)
(* satisfies S[offset .. offset + length) = uvarint(length) || cid ||      *)
(* block.                                                                  *)
C1_AsStated == SectionReturned => Span = SectionToBytes(last.res.section)

(* C1: every LocatableSection returned lies inside the stream, and          *)
(* S[offset .. offset + length) is a varint that decodes to the section's  *)
(* length, followed by cid || block, so that parsing those bytes again     *)
(* gives the same section; when the offset is that of a section the        *)
(* stream was made from, it is that section and the bytes are exactly      *)
(* uvarint(length) || cid || block.                                        *)
C1_OffsetCorrectness ==
    SectionReturned =>
        LET section == last.res.section
            v       == UVarintDecode(Span)
            again   == SectionTryReadBytes(Span)
        IN  /\ last.res.location.offset + last.res.location.length <= Len(S.bytes)
            /\ v.ok /\ v.value = section.length
            /\ Span = Take(Span, v.size) \o section.cid \o section.block
            /\ again.kind = "Ok" /\ again.section = section
            /\ again.size = last.res.location.length
            /\ \A i \in TrueSectionAt(last.res.location.offset) :
                  /\ Entry(last.res) = Expected(S)[i]
                  /\ Span = SectionToBytes(section)

(* A section found by find_section in a v2 stream, past the first one.     *)
C1_Witness ==
    /\ SectionReturned
    /\ last.op = "find_section"
    /\ kind = "v2"
    /\ Len(Expected(S)) >= 2
    /\ Entry(last.res) = Expected(S)[2]

(* C2: for a well-formed v1 stream fed to the v1 reader in consecutive     *)
(* non-empty chunks, retrying after each InsufficientData, the header and  *)
(* the sequence of sections (CID, block, location) are those of feeding    *)
(* the stream in one receive_data call, and the loop ends the same way.    *)
C2_ChunkedV1 ==
    kind = "v1" =>
        LET o == OneShot("v1", S)
        IN  /\ pc # "crashed"
            /\ IsPrefix(log, o.sections)
            /\ (pc \in {"sections", "feed_sections"} => rd.header = o.rd.header)
            /\ (pc = "done" => /\ rd.header = o.rd.header
                               /\ rd.header.roots = S.roots
                               /\ log = o.sections
                               /\ last.res = o.end)

(* The loop over a v1 stream has ended with all its sections read.         *)
C2_Witness ==
    /\ kind = "v1"
    /\ pc = "done"
    /\ S = StreamB
    /\ log = Expected(S)
    /\ Len(log) = 2

(* C3, as stated: for a well-formed v2 stream driven through the v2 reader *)
(* with the pull protocol in chunks of any size, the sections and the      *)
(* outcome that ends the read_section loop are those of feeding the        *)
(* stream in one chunk.                                                    *)
C3_AsStated ==
    kind = "v2" =>
        LET o == OneShot("v2", S)
        IN  /\ pc # "crashed"
            /\ IsPrefix(log, o.sections)
            /\ (pc = "done" => log = o.sections /\ last.res = o.end)

HeaderRead == last.op = "read_header" /\ last.res.kind = "Ok"

(* C4, as stated: a caller of the unified reader that answers every        *)
(* InsufficientData(offset, hint) of read_header with a non-empty chunk of *)
(* the stream starting at offset, and retries, eventually gets Ok from     *)
(* read_header.                                                            *)
C4_AsStated == (kind = "u" /\ pc = "header") ~> (kind = "u" /\ HeaderRead)

(* The window of the v2 reader and what its v1 reader has buffered.        *)
WindowEnd(r) == r.header.data_offset + r.header.data_size

BufferedEnd(r) == r.header.data_offset + r.v1_reader.start + Len(r.v1_reader.data)

(* C5, as stated: in HeaderV2 and HeaderV1 the v1 reader's buffer holds    *)
(* bytes of the window [data_offset, data_offset + data_size) only, at     *)
(* their payload-relative positions; no byte at or after the end of the    *)
(* window is ever appended to it.                                          *)
C5_AsStated ==
    (HasV2(kind, rd) /\ TheV2(kind, rd).state # "NoHeader") =>
        LET r == TheV2(kind, rd)
        IN  /\ BufferedEnd(r) <= WindowEnd(r)
            /\ r.v1_reader.data =
                   Slice(S.bytes, r.header.data_offset + r.v1_reader.start, BufferedEnd(r))

(* C6, as stated: in HeaderV1 read_section never returns InsufficientData  *)
(* with an absolute offset at or past data_offset + data_size, and once    *)
(* every section of the payload window has been consumed each further      *)
(* read_section returns EndOfSections.                                     *)
C6_AsStated ==
    (HasV2(kind, rd) /\ TheV2(kind, rd).state = "HeaderV1"
                     /\ last.op = "read_section") =>
        /\ (last.res.kind = "InsufficientData"
               => last.res.offset < WindowEnd(TheV2(kind, rd)))
        /\ ((Len(log) >= Len(S.sections)
               /\ ~(last.res.kind = "Ok" /\ Len(log) = Len(S.sections)))
               => last.res.kind = "EndOfSections")

(* C7: the unified reader is undecided exactly while it has accepted fewer *)
(* than 11 bytes; decided, it is V2 if and only if the first 11 bytes of   *)
(* the stream are the pragma, and V1 otherwise: a stream whose first 11    *)
(* bytes differ from the pragma in one bit takes the v1 path.              *)
C7_VersionDiscrimination ==
    kind = "u" =>
        /\ rd.state = "Unclear" =>
              /\ UGetFormat(rd) = "None"
              /\ Len(rd.buffer) < Len(CAR_V2_PRAGMA)
              /\ IsPrefix(rd.buffer, S.bytes)
        /\ rd.state = "V2" =>
              /\ UGetFormat(rd) = "V2"
              /\ Take(S.bytes, Len(CAR_V2_PRAGMA)) = CAR_V2_PRAGMA
        /\ rd.state = "V1" =>
              /\ UGetFormat(rd) = "V1"
              /\ Len(S.bytes) >= Len(CAR_V2_PRAGMA)
              /\ Take(S.bytes, Len(CAR_V2_PRAGMA)) # CAR_V2_PRAGMA
        /\ (S \in FlippedStreams) => rd.state # "V2"

(* The pragma with the lowest bit of its last byte flipped took the v1     *)
(* path.                                                                   *)
C7_Witness ==
    /\ kind = "u"
    /\ S = StreamFlipped(Len(CAR_V2_PRAGMA), 0)
    /\ rd.state = "V1"
    /\ last.op = "receive_data"

StateRank(state) ==
    IF state = "NoHeader" THEN 0 ELSE IF state = "HeaderV2" THEN 1 ELSE 2

(* One step of a v2 reader, by the rules of its state machine.             *)
C8_Step ==
    (kind = "v2") =>
        /\ StateRank(rd'.state) >= StateRank(rd.state)
        /\ (rd.state = "NoHeader" /\ rd'.state # "NoHeader") =>
              /\ last'.op = "read_header"
              /\ Len(rd.data) >= 51
              /\ Take(rd.data, 11) = CAR_V2_PRAGMA
        /\ (rd.state = "NoHeader" /\ last'.op = "read_header" /\ Len(rd.data) >= 51
               /\ Take(rd.data, 11) # CAR_V2_PRAGMA) =>
              /\ last'.res.kind = "InvalidVersion"
              /\ rd'.state = "NoHeader"
        /\ (rd.state # "HeaderV1" /\ rd'.state = "HeaderV1") =>
              /\ last'.op = "read_header"
              /\ last'.res.kind = "Ok"
              /\ V1HasHeader(rd'.v1_reader)
        /\ rd.state = "HeaderV1" => rd'.state = "HeaderV1"

(* C8: the v2 reader's state only moves forward NoHeader -> HeaderV2 ->    *)
(* HeaderV1; it leaves NoHeader only in a read_header that sees at least   *)
(* 51 buffered bytes starting with the pragma; with 51 bytes and another   *)
(* pragma read_header fails with InvalidVersion and stays in NoHeader; it  *)
(* enters HeaderV1 only with the v1 header parsed; HeaderV1 is terminal.   *)
C8_StateMachine == [][C8_Step]_vars

(* A v2 reader in HeaderV1 after a read_header that found the v1 header    *)
(* already parsed.                                                         *)
C8_Witness ==
    /\ kind = "v2"
    /\ rd.state = "HeaderV1"
    /\ V1HasHeader(rd.v1_reader)
    /\ last.op = "read_header"

---------------------------------------------------------------------------
(* Properties of the v1 writer.                                            *)

(* C9: once everything written has been emitted, reading the emitted       *)
(* bytes with the v1 reader gives the writer's roots and exactly the       *)
(* written sections in write order (CID and block), each at the location   *)
(* its write_section returned, and then asks for bytes at the end of the   *)
(* stream.                                                                 *)
C9_WriteThenRead ==
    (kind = "w1" /\ ~W1HasDataToSend(wr)) =>
        /\ ReadBack.header.kind = "Ok"
        /\ ReadBack.rd.header.version = 1
        /\ ReadBack.rd.header.roots = S.roots
        /\ ReadBack.sections = written
        /\ ReadBack.end = InsufficientData(Len(sink), 0)

(* Three sections written, the buffer having been full in between, and     *)
(* everything emitted.                                                     *)
C9_Witness ==
    /\ kind = "w1"
    /\ ~W1HasDataToSend(wr)
    /\ Len(written) = MaxSections
    /\ written[1].section = SecBig
    /\ written[2].section = SecBig
    /\ written[3].section = SecA
    /\ S.roots # <<>>
    /\ ReadBack.sections = written
    /\ last.op = "send_data"

C10_SendStep ==
    (kind = "w1" /\ last'.op = "send_data" /\ last' # last) =>
        /\ last'.res.hint = Min(Len(wr.data), last'.pos)
        /\ last'.buf = Take(wr.data, last'.res.hint)
        /\ wr'.data = Drop(wr.data, last'.res.hint)
        /\ wr'.offset = wr.offset + last'.res.hint
        /\ sink' = sink \o last'.buf

C10_Stream ==
    kind = "w1" =>
        /\ IsPrefix(sink, WholeOutput)
        /\ sink \o wr.data = WholeOutput
        /\ wr.offset = Len(sink)
        /\ (~W1HasDataToSend(wr) => sink = WholeOutput)

(* C10: each send_data returns n = min(buffered bytes, |sink_buf|),        *)
(* removes exactly the n oldest bytes and advances the stream offset by n; *)
(* the bytes emitted so far are always a prefix of H || s1.to_bytes() ||   *)
(* s2.to_bytes() || ..., and the whole of it once has_data_to_send() is    *)
(* false.                                                                  *)
C10_OutputStream == []C10_Stream /\ [][C10_SendStep]_vars

(* A send_data into a sink smaller than what is buffered, with two         *)
(* sections written.                                                       *)
C10_Witness ==
    /\ kind = "w1"
    /\ last.op = "send_data"
    /\ last.res.hint = SmallSink
    /\ W1HasDataToSend(wr)
    /\ Len(written) = 2
    /\ Len(sink) > TestSink


(* The section of WriterSections a write_section call was about.           *)
SectionWritten(call) == CHOOSE s \in WriterSections : s.cid = call.cid

C11_Step ==
    (kind = "w1" /\ last'.op = "write_section" /\ last' # last) =>
        /\ last'.res.kind \in {"Ok", "BufferFull"}
        /\ last'.res.kind = "BufferFull"
               <=> Len(wr.data) + Len(SectionToBytes(SectionWritten(last')))
                       > wr.capacity
        /\ last'.res.kind = "BufferFull" => (wr' = wr /\ written' = written)
        /\ wr'.capacity = wr.capacity

C11_Retry ==
    (kind = "w1" /\ ~W1HasDataToSend(wr)) =>
        \A s \in WriterSections :
            Len(SectionToBytes(s)) <= wr.capacity
                => W1WriteSection(wr, s).res.kind = "Ok"

(* C11: write_section returns BufferFull exactly when the bytes buffered   *)
(* plus the section's serialized size exceed the capacity, and then        *)
(* changes neither the buffer nor the stream offset; with the buffer       *)
(* drained, a write_section of a section that fits the capacity succeeds.  *)
C11_Backpressure == []C11_Retry /\ [][C11_Step]_vars

(* A write_section refused with two sections buffered behind a partly      *)
(* emitted header.                                                         *)
C11_Witness ==
    /\ kind = "w1"
    /\ last.op = "write_section"
    /\ last.res.kind = "BufferFull"
    /\ Len(written) = 2
    /\ wr.offset > 0
    /\ W1HasDataToSend(wr)


---------------------------------------------------------------------------
(* Properties of the v2 writer.                                            *)

(* The payload bytes of the sink: everything from offset 51 on.            *)
SinkPayload == Drop(sink, 51)

C12_Step ==
    (kind = "w2" /\ last' # last) =>
        /\ last'.op = "finalize_sections" =>
              /\ wr.phase = "SectionWriting"
              /\ last'.res.kind = "BufferNotFlushed" <=> W2HasDataToSend(wr)
              /\ last'.res.kind = "BufferNotFlushed" <=> wr.inner.data # <<>>
              /\ last'.res.kind # "BufferNotFlushed" =>
                    (last'.res.kind = "Ok" /\ wr'.phase = "IndexWriting")
        /\ last'.op \in {"finalize_index", "finalize_full_index"} =>
              /\ wr.phase = "IndexWriting"
              /\ last'.res.kind = "BufferNotFlushed" <=> wr.data # <<>>
              /\ last'.res.kind # "BufferNotFlushed" =>
                    (last'.res.kind = "Ok" /\ wr'.phase = "Finalized")
        /\ wr'.phase # wr.phase =>
              (last'.res.kind = "Ok" /\ ~W2HasDataToSend(wr))

C12_Emitted ==
    (kind = "w2" /\ wr.phase \in {"IndexWriting", "Finalized"}) =>
        /\ SinkPayload = WholeOutput
        /\ (wr.phase = "Finalized" /\ wr.header_saved /\ pc # "crashed") =>
              Take(sink, 51) = CAR_V2_PRAGMA \o CarV2HeaderToBytes(wr.header)

C12_NotYet ==
    (kind = "w2" /\ (wr.phase # "Finalized" \/ ~wr.header_saved)) =>
        (sink = <<>> \/ Take(sink, 51) = [i \in 1..51 |-> 0])

(* C12: finalize_sections returns BufferNotFlushed iff the section-phase   *)
(* buffer still holds bytes and otherwise moves to IndexWriting;           *)
(* finalize_index and finalize_full_index return BufferNotFlushed iff      *)
(* index bytes remain and otherwise move to Finalized; in IndexWriting     *)
(* and Finalized every payload byte written is in the sink, and pragma and *)
(* header are written at offset 0 only in Finalized.                       *)
C12_PhaseOrdering == []C12_Emitted /\ []C12_NotYet /\ [][C12_Step]_vars

(* Pragma and header written at offset 0 after both finalize calls, with   *)
(* three sections in the payload.                                          *)
C12_Witness ==
    /\ kind = "w2"
    /\ wr.phase = "Finalized"
    /\ wr.header_saved
    /\ pc = "write"
    /\ Len(written) = MaxSections
    /\ Take(sink, 11) = CAR_V2_PRAGMA
    /\ SinkPayload = WholeOutput


C13_Step ==
    (kind = "w2" /\ last' # last /\ wr.phase = "SectionWriting") =>
        /\ last'.op = "send_data" =>
              /\ last'.res.offset = (IF sink = <<>> THEN 51 ELSE Len(sink))
              /\ last'.res.hint = Len(last'.buf)
              /\ Len(sink') = last'.res.offset + last'.res.hint
              /\ Take(sink', Len(sink)) = sink
              /\ Drop(sink', last'.res.offset) = last'.buf
        /\ (last'.op = "write_section" /\ last'.res.kind = "Ok") =>
              /\ last'.res.location.offset =
                     51 + W1WriteSection(wr.inner, SectionWritten(last')).res.location.offset
              /\ last'.res.location.length =
                     W1WriteSection(wr.inner, SectionWritten(last')).res.location.length

C13_Window ==
    kind = "w2" =>
        /\ wr.phase = "Finalized" =>
              /\ wr.header.data_offset = 51
              /\ wr.header.data_size = Len(sink) - 51
              /\ Slice(sink, wr.header.data_offset,
                       wr.header.data_offset + wr.header.data_size) = WholeOutput
        /\ ~(wr.phase = "SectionWriting" /\ W2HasDataToSend(wr)) =>
              \A i \in DOMAIN written :
                  Slice(sink, written[i].location.offset,
                        written[i].location.offset + written[i].location.length)
                      = SectionToBytes(written[i].section)

(* C13: during SectionWriting each send_data range starts where the        *)
(* previous one ended, the first at sink offset 51; the header made by     *)
(* finalize_sections and finalize_index has data_offset 51 and data_size   *)
(* the number of bytes emitted during SectionWriting, the sink range       *)
(* [data_offset, data_offset + data_size) holding exactly those bytes;     *)
(* write_section returns the inner v1 location moved by 51.                *)
C13_PayloadWindow == []C13_Window /\ [][C13_Step]_vars

(* finalize_index has just made the header for a payload of three          *)
(* sections emitted in more than one range.                                *)
C13_Witness ==
    /\ kind = "w2"
    /\ wr.phase = "Finalized"
    /\ last.op = "finalize_index"
    /\ ~wr.header_saved
    /\ written # <<>>
    /\ Len(written) = MaxSections
    /\ written[2].section = SecBig
    /\ written[2].location.offset > 51
    /\ wr.header.data_size = Len(WholeOutput)
    /\ wr.header.data_size > BufferSize


---------------------------------------------------------------------------
(* Properties of find_section and seek_first_section.                      *)

(* The section boundary the reader stands at after the calls of entries.   *)
Boundary(entries) ==
    IF entries = <<>> THEN FirstSectionOffset(S)
    ELSE entries[Len(entries)].location.offset + entries[Len(entries)].location.length

(* The sections of the stream at or after offset b whose CID is cid.       *)
Candidates(b, cid) ==
    {i \in DOMAIN Expected(S) :
        /\ Expected(S)[i].location.offset >= b
        /\ Expected(S)[i].section.cid = cid}

FirstMatch(b, cid) ==
    Expected(S)[CHOOSE i \in Candidates(b, cid) : \A j \in Candidates(b, cid) : i <= j]

C14_Returned ==
    (last.op = "find_section" /\ last.res.kind = "Ok") =>
        /\ Candidates(Boundary(Take(log, Len(log) - 1)), last.cid) # {}
        /\ Entry(last.res) = FirstMatch(Boundary(Take(log, Len(log) - 1)), last.cid)
        /\ log[Len(log)] = Entry(last.res)
        /\ HasInnerV1(kind, rd)
        /\ S.base + InnerV1(kind, rd).start = Boundary(log)
        /\ NextPos(kind, rd) = Boundary(log) + Len(InnerV1(kind, rd).data)
        /\ IsPrefix(Take(InnerV1(kind, rd).data, S.base + S.payload_len - Boundary(log)),
                    Drop(S.bytes, Boundary(log)))

C14_Searching ==
    (/\ last.cid # <<>>
     /\ last.op \in {"find_section", "receive_data"}
     /\ last.res.kind # "Ok"
     /\ Candidates(Boundary(log), last.cid) # {}) =>
        /\ pc \in {"find", "feed_find"}
        /\ pc = "feed_find" =>
              /\ last.res.offset = NextPos(kind, rd)
              /\ last.res.offset >= Boundary(log)
              /\ last.res.offset < Boundary(<<FirstMatch(Boundary(log), last.cid)>>)

(* C14: with the header parsed and the reader at a section boundary,       *)
(* find_section(cid) driven by the pull protocol returns the first section *)
(* at or after that boundary whose CID is cid, with its block and its true *)
(* location, and leaves the reader just after it; while such a section     *)
(* exists the search does not end otherwise, and every chunk it asks for   *)
(* lies before the end of that section and is appended.                    *)
C14_FindSection == C14_Returned /\ C14_Searching

(* The second section with the CID found in a v2 payload after the first   *)
(* was read, a section with another CID having been skipped.               *)
C14_Witness ==
    /\ kind = "v2"
    /\ last.op = "find_section"
    /\ last.res.kind = "Ok"
    /\ Len(log) = 2
    /\ log[1].section = SecA
    /\ last.res.section = SecA2
    /\ last.cid = CidA


(* The header is parsed: has_header() of the reader.                       *)
HasHeader(k, r) ==
    IF k = "v1" THEN V1HasHeader(r)
    ELSE IF k = "v2" THEN V2HasHeader(r)
    ELSE UHasHeader(r)

C15_Twice ==
    (kind \in {"v1", "v2", "u"} /\ HasHeader(kind, rd)) =>
        /\ SeekFirstSection(kind, rd).res.kind = "Ok"
        /\ SeekFirstSection(kind, SeekFirstSection(kind, rd).rd).res.kind = "Ok"
        /\ SeekFirstSection(kind, SeekFirstSection(kind, rd).rd).rd
               = SeekFirstSection(kind, rd).rd

C15_Step ==
    (/\ last.op = "seek_first_section"
     /\ last.res.kind = "Ok"
     /\ last'.op = "seek_first_section") => (rd' = rd /\ last' = last)

(* C15: in every reachable reader state with the header parsed,            *)
(* seek_first_section called twice in a row leaves the reader in the state *)
(* one call leaves it in.                                                  *)
C15_SeekIdempotent == []C15_Twice /\ [][C15_Step]_vars

(* A v2 reader past the first section with bytes buffered, where the       *)
(* first seek_first_section drops the buffer and moves start, and the      *)
(* second finds nothing to do.                                             *)
C15_Witness ==
    /\ kind = "v2"
    /\ HasHeader(kind, rd)
    /\ last.op = "receive_data"
    /\ rd.v1_reader.data # <<>>
    /\ rd.v1_reader.start > rd.v1_reader.header.size
    /\ SeekFirstSection(kind, rd).rd # rd
    /\ SeekFirstSection(kind, SeekFirstSection(kind, rd).rd).rd.v1_reader.data = <<>>


(* A step of the v1 reader in which seek_first_section returns Ok.         *)
V1SeekReturnsOk ==
    /\ kind = "v1"
    /\ last'.op = "seek_first_section"
    /\ last'.res.kind = "Ok"

C16_StepAsStated ==
    V1SeekReturnsOk =>
        /\ rd.header.present
        /\ rd'.data = <<>>
        /\ rd'.start = rd.header.size
        /\ rd'.header = rd.header

(* C16 as stated: after seek_first_section returns Ok on the v1 reader the *)
(* buffer is empty and start is total_header_size, whatever they were      *)
(* before, and the header is unchanged.                                    *)
C16_AsStated == [][C16_StepAsStated]_vars

C16_Step ==
    V1SeekReturnsOk =>
        /\ rd.header.present
        /\ rd'.start = rd.header.size
        /\ rd'.header = rd.header
        /\ rd'.data = IF rd.start = rd.header.size THEN rd.data ELSE <<>>

(* C16: after seek_first_section returns Ok on the v1 reader, start is     *)
(* total_header_size and the header is unchanged; the buffer is empty      *)
(* unless start already was total_header_size, and then it is kept.        *)
C16_SeekPostState == [][C16_Step]_vars

(* seek_first_section has returned Ok on a v1 reader standing at the first *)
(* section with bytes buffered.                                            *)
C16_Witness ==
    /\ kind = "v1"
    /\ last.op = "seek_first_section"
    /\ last.res.kind = "Ok"
    /\ rd.start = rd.header.size
    /\ rd.data # <<>>


---------------------------------------------------------------------------
(* Properties of the v1 reader's operations.                               *)

(* The buffer holds the stream's bytes at [start, start + |buffer|).       *)
BufferMirrorsStream(r) == r.data = Slice(S.bytes, r.start, r.start + Len(r.data))

C17_Step ==
    (kind = "v1" /\ last'.op = "receive_data") =>
        /\ last'.pos = rd.start + Len(rd.data) =>
              (rd'.data = rd.data \o last'.buf /\ rd'.start = rd.start)
        /\ last'.pos # rd.start + Len(rd.data) =>
              (rd'.data = last'.buf /\ rd'.start = last'.pos)
        /\ BufferMirrorsStream(rd')
        /\ rd'.start + Len(rd'.data) = last'.pos + Len(last'.buf)
        /\ rd'.header = rd.header

(* C17: receive_data(buf, pos) on the v1 reader appends buf and keeps      *)
(* start when pos = start + |buffer|, and otherwise replaces the buffer by *)
(* buf and sets start to pos; either way the buffer then holds the         *)
(* stream's bytes at [start, start + |buffer|), which ends at pos + |buf|, *)
(* and the parsed header is unchanged.                                     *)
C17_ReceiveData == [][C17_Step]_vars

(* A receive_data away from the end of the buffer, on a v1 reader with     *)
(* the header parsed and bytes buffered behind the first section.          *)
C17_Witness ==
    /\ kind = "v1"
    /\ last.op = "receive_data"
    /\ rd.header.present
    /\ rd.start = last.pos
    /\ rd.start > rd.header.size
    /\ rd.data = last.buf
    /\ Len(rd.data) = MidChunk


(* varint_size + header_len of the stream's header.                        *)
TotalHeaderSize == FirstSectionOffset(S)

C18_Step ==
    (kind = "v1" /\ last'.op = "read_header") =>
        /\ (/\ ~rd.header.present
            /\ rd.start = 0
            /\ Len(rd.data) >= TotalHeaderSize
            /\ Take(rd.data, TotalHeaderSize) = Take(S.bytes, TotalHeaderSize)) =>
              /\ last'.res = Ok
              /\ rd'.header = [CarHeaderNew(S.roots) EXCEPT !.size = TotalHeaderSize]
              /\ rd'.data = Drop(rd.data, TotalHeaderSize)
              /\ rd'.start = TotalHeaderSize
        /\ rd.header.present => (last'.res = Ok /\ rd' = rd)

(* C18: with start = 0 and the whole header buffered, read_header on the   *)
(* v1 reader stores the header with varint_size + header_len, removes      *)
(* exactly those bytes from the front of the buffer and sets start to      *)
(* varint_size + header_len; every later read_header returns Ok and        *)
(* changes nothing.                                                        *)
C18_ReadHeader == [][C18_Step]_vars

(* read_header has parsed a header with one root, bytes of the first       *)
(* section staying buffered.                                               *)
C18_Witness ==
    /\ kind = "v1"
    /\ last.op = "read_header"
    /\ last.res = Ok
    /\ rd.header.roots = <<CidA>>
    /\ rd.header.size = TotalHeaderSize
    /\ rd.start = rd.header.size
    /\ rd.data # <<>>
    /\ BufferMirrorsStream(rd)


C19_Step ==
    (/\ kind = "v1"
     /\ last'.op = "read_header"
     /\ ~rd.header.present
     /\ rd.start # 0) =>
        /\ last'.res = InsufficientData(0, 8)
        /\ rd' = rd

(* C19: while no header is parsed and start is not 0, read_header on the   *)
(* v1 reader returns InsufficientData(0, 8) and leaves the reader          *)
(* unchanged, whatever the buffer holds.                                   *)
C19_RewindRequest == [][C19_Step]_vars

(* read_header has asked for a rewind, the buffer holding bytes from the   *)
(* middle of the stream.                                                   *)
C19_Witness ==
    /\ kind = "v1"
    /\ last.op = "read_header"
    /\ last.res = InsufficientData(0, 8)
    /\ ~rd.header.present
    /\ rd.start > TotalHeaderSize
    /\ Len(rd.data) > 8


(* The reader lacks what read_section, find_section and seek_first_section *)
(* require: the v1 reader its header, the v2 reader the state HeaderV1.    *)
PreconditionMissing ==
    \/ kind = "v1" /\ ~rd.header.present
    \/ kind = "v2" /\ rd.state # "HeaderV1"

C20_Step ==
    (/\ PreconditionMissing
     /\ last'.op \in {"read_section", "find_section", "seek_first_section"}) =>
        /\ last'.res = Err("PreconditionNotMet")
        /\ rd' = rd

(* C20: on the v1 reader with no parsed header and on the v2 reader in any *)
(* state other than HeaderV1, read_section, find_section and               *)
(* seek_first_section return PreconditionNotMet and leave the reader       *)
(* unchanged.                                                              *)
C20_Preconditions == [][C20_Step]_vars

(* find_section refused by a v2 reader that has the v2 header but not yet  *)
(* the inner v1 header, with payload bytes buffered.                       *)
C20_Witness ==
    /\ kind = "v2"
    /\ rd.state = "HeaderV2"
    /\ last.op = "find_section"
    /\ last.res = Err("PreconditionNotMet")
    /\ rd.v1_reader.data # <<>>


---------------------------------------------------------------------------
(* Properties of the v2 and unified readers' header handling.              *)

C21_Headers ==
    (kind = "v2" /\ pc = "sections") =>
        /\ last.op = "read_header"
        /\ last.res = Ok
        /\ V2HasHeader(rd)
        /\ V2Header(rd).some
        /\ V2Header(rd).v1 = CarHeaderNew(S.roots)
        /\ V2Header(rd).v2 = CarV2HeaderFromBytes(Slice(S.bytes, 11, 51))
        /\ V2Header(rd).v2.data_offset = S.base

(* C21: on a well-formed v2 stream, from a v2 reader holding any prefix    *)
(* of it, the caller that answers each InsufficientData(offset, hint) of   *)
(* read_header with the bytes [offset, offset + hint) gets Ok after        *)
(* finitely many rounds; has_header() is then true and header() is the v1  *)
(* header and the v2 header decoded from bytes [11, 51).                   *)
C21_HeaderPullLoop == <>(pc = "sections") /\ []C21_Headers

(* Both headers read from a stream with padding before the payload, the    *)
(* reader having been handed the bytes up to the end of the v1 header and  *)
(* no further.                                                             *)
C21_Witness ==
    /\ kind = "v2"
    /\ S = StreamV2Pad
    /\ pc = "sections"
    /\ V2HasHeader(rd)
    /\ rd.v1_reader.data = <<>>
    /\ rd.v1_reader.start = rd.v1_reader.header.size


C22_Step ==
    (kind = "v2" /\ rd.state = "NoHeader" /\ Len(rd.data) < 51) =>
        /\ rd.start = 0
        /\ last'.op = "read_header" =>
              /\ last'.res = InsufficientData(Len(rd.data), 51 - Len(rd.data))
              /\ rd' = rd
        /\ (last'.op = "receive_data" /\ last'.pos = Len(rd.data)) =>
              rd' = [rd EXCEPT !.data = rd.data \o last'.buf]
        /\ (last'.op = "receive_data" /\ last'.pos # Len(rd.data)) =>
              rd' = rd

(* C22: in state NoHeader with n < 51 bytes buffered, read_header of the   *)
(* v2 reader returns InsufficientData(n, 51 - n) and stays in NoHeader;    *)
(* receive_data(buf, pos) appends buf when pos = n and leaves the reader   *)
(* as it was when pos differs from n.                                      *)
C22_NoHeaderBuffering == [][C22_Step]_vars

(* A chunk handed over past the end of a partly buffered v2 header and     *)
(* dropped.                                                                *)
C22_Witness ==
    /\ kind = "v2"
    /\ rd.state = "NoHeader"
    /\ last.op = "receive_data"
    /\ Len(rd.data) > 0
    /\ Len(rd.data) < 51
    /\ last.pos > Len(rd.data)
    /\ last.buf # <<>>


(* The bytes accepted once the receive_data of the step is counted: the    *)
(* chunk is taken only at the end of what is accumulated.                  *)
AcceptedAfter ==
    IF last'.pos = Len(rd.buffer) THEN rd.buffer \o last'.buf ELSE rd.buffer

C23_Step ==
    (kind = "u" /\ last'.op = "receive_data") =>
        /\ rd.state = "Unclear" =>
              /\ rd.buffer = Take(S.bytes, Len(rd.buffer))
              /\ rd'.state = "Unclear" => rd'.buffer = AcceptedAfter
              /\ rd'.state = "V1" =>
                    /\ rd'.inner.data = AcceptedAfter
                    /\ rd'.inner.start = 0
                    /\ ~rd'.inner.header.present
              /\ rd'.state = "V2" =>
                    /\ rd'.inner.state = "NoHeader"
                    /\ rd'.inner.data = AcceptedAfter
                    /\ rd'.inner.start = 0
        /\ rd.state = "V1" =>
              rd' = [rd EXCEPT !.inner = V1ReceiveData(rd.inner, last'.buf, last'.pos)]
        /\ rd.state = "V2" =>
              rd' = [rd EXCEPT !.inner = V2ReceiveData(rd.inner, last'.buf, last'.pos)]

(* C23: at the receive_data call that decides the format, the inner reader *)
(* created holds every byte accepted so far, the chunk of the call         *)
(* included, from offset 0, nothing lost and nothing twice; after the      *)
(* decision each receive_data(buf, pos) is passed on to the inner reader   *)
(* as it is.                                                               *)
C23_HandOver == [][C23_Step]_vars

(* The format decided as v2 at a chunk that started inside the pragma,     *)
(* after earlier chunks had been accepted.                                 *)
C23_Witness ==
    /\ kind = "u"
    /\ last.op = "receive_data"
    /\ rd.state = "V2"
    /\ rd.inner.state = "NoHeader"
    /\ last.pos > 0
    /\ last.pos < Len(CAR_V2_PRAGMA)
    /\ rd.inner.data = Take(S.bytes, last.pos + Len(last.buf))
    /\ Len(rd.inner.data) > 51


Undecided == kind = "u" /\ rd.state = "Unclear"

C24_Getters == Undecided => (~UHasHeader(rd) /\ ~UHeader(rd).some)

C24_Step ==
    Undecided =>
        /\ last'.op = "read_header" =>
              (last'.res = InsufficientData(0, 12) /\ rd' = rd)
        /\ last'.op \in {"read_section", "find_section", "seek_first_section"} =>
              (last'.res = Err("PreconditionNotMet") /\ rd' = rd)

(* C24: while the unified reader has not decided the format, read_header   *)
(* returns InsufficientData(0, 12), read_section, find_section and         *)
(* seek_first_section return PreconditionNotMet, has_header() is false and *)
(* header() is None, and none of these calls changes the bytes             *)
(* accumulated.                                                            *)
C24_Undecided == []C24_Getters /\ [][C24_Step]_vars

(* read_section refused by a reader that holds some bytes of the stream    *)
(* and has not decided yet.                                                *)
C24_Witness ==
    /\ Undecided
    /\ last.op = "read_section"
    /\ last.res = Err("PreconditionNotMet")
    /\ rd.buffer # <<>>


---------------------------------------------------------------------------
(* Streams whose v1 header carries a version other than 1, read by a free  *)
(* caller.                                                                 *)

StreamVersion2 ==
    V1Stream(CarHeaderSerialize(CarHeader(2, <<CidB>>)), <<CidB>>, <<SecB>>)

StreamVersion0 ==
    V1Stream(CarHeaderSerialize(CarHeader(0, <<>>)), <<>>, <<SecV0>>)

StreamV2Version2 == V2Stream(CAR_V2_PRAGMA, StreamVersion2, <<>>)

VersionStreams(k) ==
    IF k = "v1" THEN {StreamVersion2, StreamVersion0, StreamC}
    ELSE IF k = "v2" THEN {StreamV2Version2, StreamV2C}
    ELSE {StreamVersion2, StreamV2Version2}

InitVersion ==
    /\ kind \in {"v1", "v2", "u"}
    /\ S \in VersionStreams(kind)
    /\ build \in Builds
    /\ rd = New(kind)
    /\ last = NoCall
    /\ pc = "free"
    /\ log = <<>>
    /\ InitWriterIdle

SpecVersion == InitVersion /\ [][NextRd]_vars

Header(k, r) ==
    IF k = "v1" THEN V1Header(r)
    ELSE IF k = "v2" THEN V2Header(r)
    ELSE UHeader(r)

(* C25: no reader stores, and header() never returns, a v1 header whose    *)
(* version field is not 1; read_header fails with InvalidVersion instead.  *)
(* The code decodes the header and stores it whatever its version.         *)
C25_AsStated == Header(kind, rd).some => Header(kind, rd).v1.version = 1


---------------------------------------------------------------------------
(* The codecs on their own: a value is encoded and the bytes decoded, or   *)
(* given bytes are decoded.  S is the input, log the bytes at hand, last   *)
(* the call made last with what it returned.                               *)

Input(type, value, bytes) == [type |-> type, value |-> value, bytes |-> bytes]

SuiteMax == 65537

SignedSuite == {-65537, -32768, -1, 0, 1, 32767, 65537}

NearZero == 130

MaxCont == 12

(* 2^shift - 1                                                             *)
AllOnesBelow(shift) ==
    IF shift < 28 THEN Word(Pow2(shift) - 1, 0, 0)
    ELSE IF shift < 56 THEN Word(LimbSize(1) - 1, Pow2(shift - 28) - 1, 0)
    ELSE Word(LimbSize(1) - 1, LimbSize(2) - 1, Pow2(shift - 56) - 1)

(* 2^(7k) and 2^(7k) - 1, where the unsigned encoding grows by a byte, and *)
(* 2^64 - 1 (u64::MAX, and -1 as an i64).                                  *)
BoundaryWords ==
    {OrShl(WordZero, 1, 7 * k) : k \in 1..9} \cup {AllOnesBelow(7 * k) : k \in 1..9}
        \cup {AllOnesBelow(64)}

(* 2^(7k - 1) - 1, 2^(7k - 1), -2^(7k - 1) and -2^(7k - 1) - 1, where the   *)
(* signed encoding grows by a byte; k = 9 gives i64::MAX and i64::MIN.     *)
SignedBoundaryWords ==
    {AllOnesBelow(7 * k - 1) : k \in 1..9}
        \cup {OrShl(WordZero, 64, 7 * k - 7) : k \in 1..9}
        \cup {OrOnesFrom(OrShl(WordZero, 64, 7 * k - 7), 7 * k) : k \in 1..9}
        \cup {OrOnesFrom(AllOnesBelow(7 * k - 1), 7 * k) : k \in 1..9}
        \cup {AllOnesBelow(63), OrShl(WordZero, 1, 63)}

UnsignedInputs ==
    {Input("unsigned", WordOfInt(x), <<>>) : x \in 0..SuiteMax}
        \cup {Input("unsigned", w, <<>>) : w \in BoundaryWords}

SignedInputs ==
    {Input("signed", WordOfInt(x), <<>>) : x \in SignedSuite \cup (-NearZero..NearZero)}
        \cup {Input("signed", w, <<>>) : w \in BoundaryWords \cup SignedBoundaryWords}

Cont(byte, n) == [i \in 1..n |-> byte]

VarintTails ==
    {<<>>, <<0>>, <<1>>, <<64>>, <<127>>, <<2, 128>>, <<127, 255, 0>>}

VarintByteInputs ==
    {Input("varint_bytes", WordZero, Cont(c, n) \o tail) :
        c \in {128, 255}, n \in 0..MaxCont, tail \in VarintTails}

Pattern(n) == [i \in 1..n |-> (i * 7) % 256]

(* The CIDv1 of the fixture of wire/cid.rs.                                *)
CidSha ==
    <<1, 112, 18, 32, 44, 95, 104, 130, 98, 224, 236, 232, 86, 154, 166, 249, 77, 96,
      170, 213, 92, 168, 217, 216, 55, 52, 228, 167, 67, 13, 12, 255, 101, 136, 236, 43>>

(* A CIDv1 whose multicodec and hash code take two bytes each, and one     *)
(* whose digest length takes two.                                          *)
CidWide == <<1, 129, 1, 145, 2, 3, 9, 8, 7>>

CidLong == <<1, 85, 18, 130, 1>> \o Pattern(130)

ValidCids == {CidA, CidB, CidV0, CidSha, CidWide, CidLong}

(* |cid| + |block| of the sections tried: around each length at which the  *)
(* length prefix grows by a byte, and 2 MiB itself for one CID.            *)
SectionTotals(cid) ==
    {t \in {Len(cid), Len(cid) + 1, 127, 128, 16383, 16384} : t >= Len(cid)}
        \cup (IF cid = CidV0 THEN {MAX_BLOCK_SIZE} ELSE {})

SectionInputs ==
    UNION {{Input("section", SectionNew(cid, Pattern(total - Len(cid))), <<>>) :
               total \in SectionTotals(cid)} : cid \in ValidCids}

Prefixes(bytes) == {Take(bytes, n) : n \in 0..Len(bytes)}

CidTails == {<<0>>, <<18, 32>>, <<1, 255>>, <<128, 128, 128>>}

(* Bytes that begin no CID: a leading byte that is neither 0x01 nor 0x12,  *)
(* or 0x12 followed by something else than 0x20.                           *)
NoCidBytes ==
    {<<0>>, <<3>>, <<255>>, <<0, 1>>, <<2, 85, 18, 1, 170>>, <<32, 18>>,
     <<18, 33>> \o Repeat(7, 32), <<18, 1, 85>>, <<255, 255, 255>>}

CidInputs ==
    UNION {{Input("cid_bytes", cid, p) : p \in Prefixes(cid)} : cid \in ValidCids}
        \cup {Input("cid_bytes", cid, cid \o tail) : cid \in ValidCids, tail \in CidTails}
        \cup {Input("cid_bytes", <<>>, b) : b \in NoCidBytes}

(* CIDs that are not well formed: an inner varint that never ends, a       *)
(* digest length of 2^64 - 1, a digest announced longer than the bytes     *)
(* that follow, a version that is not supported, a CIDv0 cut short.        *)
MalformedCids ==
    {<<1>> \o Cont(255, 10), <<1, 85>> \o Cont(128, 10),
     <<1, 85, 18>> \o Cont(255, 9) \o <<1>>,
     <<1, 85, 18, 40, 1, 2>>, <<0, 1, 2, 3>>, <<18, 32, 1>>}

Pads == {<<>>, Cont(0, 3), Cont(0, 40)}

Declared(length, rest) == UVarintEncode(length) \o rest

(* Bytes to parse as a section: a well-formed CID under a declared length  *)
(* below, at and above its size; every prefix of two well-formed sections; *)
(* a malformed CID in a section that is all there, alone or followed by    *)
(* more bytes; length prefixes that do not end; a length over the ceiling. *)
SectionByteInputs ==
    {Input("section_bytes", NoSection, Declared(length, cid \o pad)) :
        length \in {0, 1, 4, 33, 34, 36}, cid \in {CidA, CidV0, CidWide}, pad \in Pads}
      \cup {Input("section_bytes", NoSection, p) :
               p \in Prefixes(SectionToBytes(SecA)) \cup Prefixes(SectionToBytes(SecV0))}
      \cup {Input("section_bytes", NoSection, Declared(Len(cid) + n, cid \o pad)) :
               cid \in MalformedCids, n \in {0, 3}, pad \in Pads}
      \cup {Input("section_bytes", NoSection, b) :
               b \in {Cont(128, 16), Cont(128, 17), Cont(255, 10) \o <<1>>,
                      Declared(MAX_SECTION_SIZE + 1, CidA),
                      Declared(MAX_SECTION_SIZE, CidA)}}

InitCodec ==
    /\ kind = "codec"
    /\ \/ S \in UnsignedInputs
       \/ S \in SignedInputs
       \/ S \in VarintByteInputs
       \/ S \in SectionInputs
       \/ S \in SectionByteInputs
       \/ S \in CidInputs
    /\ build \in (IF S.type \in {"section", "section_bytes"} THEN Builds ELSE {"debug"})
    /\ rd = <<>>
    /\ last = NoCall
    /\ pc = (IF S.type \in {"unsigned", "signed", "section"} THEN "value" ELSE "bytes")
    /\ log = S.bytes
    /\ InitWriterIdle

Encoded(op, bytes) ==
    /\ log' = bytes
    /\ last' = Call(op, 0, <<>>, <<>>, Ok)
    /\ pc' = "bytes"
    /\ UNCHANGED <<S, kind, rd, build, wr, sink, written>>

Decoded(op, res) ==
    /\ last' = Call(op, 0, log, <<>>, res)
    /\ pc' = "done"
    /\ UNCHANGED <<S, kind, rd, log, build, wr, sink, written>>

DoUnsignedEncode ==
    /\ pc = "value" /\ S.type = "unsigned"
    /\ Encoded("UnsignedVarint::encode", UnsignedVarintEncode(S.value))

DoSignedEncode ==
    /\ pc = "value" /\ S.type = "signed"
    /\ Encoded("SignedVarint::encode", SignedVarintEncode(S.value))

DoUnsignedDecode ==
    /\ pc = "bytes" /\ S.type \in {"unsigned", "varint_bytes"}
    /\ Decoded("UnsignedVarint::decode", UnsignedVarintDecode(log))

DoSignedDecode ==
    /\ pc = "bytes" /\ S.type \in {"signed", "varint_bytes"}
    /\ Decoded("SignedVarint::decode", SignedVarintDecode(log))

DoToBytes ==
    /\ pc = "value" /\ S.type = "section"
    /\ Encoded("Section::to_bytes", SectionToBytes(S.value))

DoTryReadBytes ==
    /\ pc = "bytes" /\ S.type \in {"section", "section_bytes"}
    /\ Decoded("Section::try_read_bytes", SectionTryReadBytes(log))

DoTryReadHeaderBytes ==
    /\ pc = "bytes" /\ S.type \in {"section", "section_bytes"}
    /\ Decoded("Section::try_read_header_bytes", SectionTryReadHeaderBytes(log))

DoCidTryReadBytes ==
    /\ pc = "bytes" /\ S.type = "cid_bytes"
    /\ Decoded("RawCid::try_read_bytes", CidTryReadBytes(log))

NextCodec ==
    \/ DoUnsignedEncode
    \/ DoSignedEncode
    \/ DoUnsignedDecode
    \/ DoSignedDecode
    \/ DoToBytes
    \/ DoTryReadBytes
    \/ DoTryReadHeaderBytes
    \/ DoCidTryReadBytes

SpecCodec == InitCodec /\ [][NextCodec]_vars


(* C29: a value encoded and decoded again is the same value, the decoder   *)
(* having read exactly the bytes the encoder wrote, which are between 1    *)
(* and 10; for UnsignedVarint over u64 and for SignedVarint over i64.      *)
C29_VarintRoundTrip ==
    (kind = "codec" /\ pc = "done" /\ S.type \in {"unsigned", "signed"}) =>
        /\ last.res = [ok |-> TRUE, value |-> S.value, size |-> Len(log)]
        /\ Len(log) >= 1
        /\ Len(log) <= 10

(* i64::MIN back from its 10-byte encoding.                                *)
C29_Witness ==
    /\ kind = "codec"
    /\ pc = "done"
    /\ S.type = "signed"
    /\ S.value = OrShl(WordZero, 1, 63)
    /\ Len(log) = 10
    /\ last.res.ok


(* The index of the first byte with the continuation bit clear, 0 when     *)
(* there is none.                                                          *)
FirstClear(bytes) ==
    IF \E i \in 1..Len(bytes) : bytes[i] < 128
    THEN CHOOSE i \in 1..Len(bytes) :
             bytes[i] < 128 /\ \A j \in 1..(i - 1) : bytes[j] >= 128
    ELSE 0

(* C30: UnsignedVarint::decode and SignedVarint::decode return None for an *)
(* input that ends before a byte with the continuation bit clear and for   *)
(* an input whose first 10 bytes all have it set; when they return         *)
(* Some((_, n)), n is between 1 and 10 and is the index of the first byte  *)
(* with the bit clear, plus one.                                           *)
C30_DecodeRejection ==
    (/\ kind = "codec"
     /\ pc = "done"
     /\ last.op \in {"UnsignedVarint::decode", "SignedVarint::decode"}) =>
        /\ FirstClear(last.buf) = 0 => ~last.res.ok
        /\ FirstClear(last.buf) > 10 => ~last.res.ok
        /\ last.res.ok =>
              /\ last.res.size >= 1
              /\ last.res.size <= 10
              /\ last.res.size = FirstClear(last.buf)

(* Ten bytes with the continuation bit set and then one without: rejected, *)
(* by either decoder.                                                      *)
C30_Witness ==
    /\ kind = "codec"
    /\ pc = "done"
    /\ last.op \in {"UnsignedVarint::decode", "SignedVarint::decode"}
    /\ last.buf = Cont(128, 10) \o <<1>>
    /\ ~last.res.ok


(* C26: for a section of a well-formed CID and a block, its length their   *)
(* sizes added up and at most 2 MiB, to_bytes() is the LEB128 of length,   *)
(* then the CID, then the block, and try_read_bytes of those bytes returns *)
(* the section and the number of bytes.                                    *)
C26_SectionRoundTrip ==
    (/\ kind = "codec"
     /\ S.type = "section"
     /\ S.value.length = Len(S.value.cid) + Len(S.value.block)
     /\ S.value.length <= MAX_BLOCK_SIZE) =>
        /\ pc \in {"bytes", "done"} =>
              log = UnsignedVarintEncode(WordOfInt(S.value.length))
                        \o S.value.cid \o S.value.block
        /\ (pc = "done" /\ last.op = "Section::try_read_bytes") =>
              last.res = [kind |-> "Ok", section |-> S.value, size |-> Len(log)]

(* A section of 128 bytes, the first length that takes a two-byte prefix,  *)
(* read back.                                                              *)
C26_Witness ==
    /\ kind = "codec"
    /\ S.type = "section"
    /\ S.value.length = 128
    /\ pc = "done"
    /\ last.op = "Section::try_read_bytes"
    /\ last.res.kind = "Ok"
    /\ last.res.size = 130


(* The number the first n bytes spell in LEB128.                           *)
RECURSIVE LebValue(_, _)
LebValue(bytes, n) ==
    IF n = 0 THEN 0 ELSE (bytes[1] % 128) + 128 * LebValue(Tail(bytes), n - 1)

(* The length of the CIDv1 that bytes begin with, from its three varints;  *)
(* 0 when one of them is not complete.                                     *)
CidV1Length(bytes) ==
    LET n1 == FirstClear(Drop(bytes, 1))
        n2 == FirstClear(Drop(bytes, 1 + n1))
        n3 == FirstClear(Drop(bytes, 1 + n1 + n2))
    IN  IF n1 = 0 \/ n2 = 0 \/ n3 = 0 THEN 0
        ELSE 1 + n1 + n2 + n3 + LebValue(Drop(bytes, 1 + n1 + n2), n3)

CidOk(cid) == [kind |-> "Ok", cid |-> cid, size |-> Len(cid)]

CidParsed == kind = "codec" /\ pc = "done" /\ last.op = "RawCid::try_read_bytes"

C28_Recognised ==
    CidParsed =>
        /\ (StartsWith(last.buf, <<18, 32>>) /\ Len(last.buf) >= 34) =>
              last.res = CidOk(Take(last.buf, 34))
        /\ (/\ last.buf # <<>>
            /\ last.buf[1] = 1
            /\ CidV1Length(last.buf) > 0
            /\ Len(last.buf) >= CidV1Length(last.buf)) =>
              last.res = CidOk(Take(last.buf, CidV1Length(last.buf)))
        /\ (S.value # <<>> /\ IsPrefix(last.buf, S.value) /\ last.buf # S.value) =>
              last.res.kind = "InsufficientData"
        /\ (S.value # <<>> /\ IsPrefix(S.value, last.buf)) =>
              last.res = CidOk(S.value)

(* Bytes that match neither pattern: not beginning with 0x01, and neither  *)
(* beginning with 0x12 0x20 nor the beginning of it.                       *)
NeitherPattern(bytes) ==
    /\ bytes # <<>>
    /\ bytes[1] # 1
    /\ ~StartsWith(bytes, <<18, 32>>)
    /\ bytes # <<18>>

---------------------------------------------------------------------------
(* Streams whose second section declares a length at or over the ceiling,  *)
(* or has no length at all, read by a free caller.                         *)

CeilingStream(tail) ==
    LET good == V1Bytes(CarHeaderSerialize(CarHeaderNew(<<CidB>>)), <<SecB>>)
    IN  Stream(good \o tail, <<CidB>>, <<SecB>>, 0, Len(good))

CeilingV2(payload) ==
    LET s == V2Stream(CAR_V2_PRAGMA, payload, <<>>)
    IN  Stream(s.bytes, payload.roots, payload.sections, 51, payload.payload_len)

StreamOver ==
    CeilingStream(UVarintEncode(MAX_SECTION_SIZE + 1) \o CidA \o <<1, 2, 3>>)

StreamAtCeiling ==
    CeilingStream(UVarintEncode(MAX_SECTION_SIZE) \o CidA \o <<1, 2, 3>>)

StreamWide == CeilingStream(Cont(255, 9) \o <<1>> \o CidA)

StreamNoLength == CeilingStream(Cont(255, 20))

CeilingStreams(k) ==
    IF k = "v1" THEN {StreamOver, StreamAtCeiling, StreamWide, StreamNoLength}
    ELSE IF k = "v2" THEN {CeilingV2(StreamOver), CeilingV2(StreamNoLength)}
    ELSE {StreamOver, CeilingV2(StreamOver)}

InitCeiling ==
    /\ kind \in {"v1", "v2", "u"}
    /\ S \in CeilingStreams(kind)
    /\ build \in Builds
    /\ rd = New(kind)
    /\ last = NoCall
    /\ pc = "free"
    /\ log = <<>>
    /\ InitWriterIdle

SpecCeiling == InitCeiling /\ [][NextRd]_vars

(* The length the bytes declare is over the ceiling.                       *)
OverCeiling(bytes) ==
    /\ UnsignedVarintDecode(bytes).ok
    /\ \/ UnsignedVarintDecode(bytes).value[3] # 0
       \/ UnsignedVarintDecode(bytes).value[2] # 0
       \/ UnsignedVarintDecode(bytes).value[1] > MAX_BLOCK_SIZE + 128

(* More than 16 bytes that yield no length.                                *)
NoLength(bytes) == ~UnsignedVarintDecode(bytes).ok /\ Len(bytes) > 16

SectionBuffer == InnerV1(kind, rd).data

(* C27: try_read_bytes and try_read_header_bytes return InvalidSize when   *)
(* the length decoded is over 2 MiB + 128, whether or not any byte of the  *)
(* payload is there, and when more than 16 bytes yield no length; so       *)
(* read_section and find_section return no section longer than the        *)
(* ceiling and do not answer InsufficientData where the length at the      *)
(* cursor is over it.                                                      *)
C27_SizeCeiling ==
    (kind \in {"v1", "v2", "u"} /\ HasInnerV1(kind, rd)) =>
        /\ (OverCeiling(SectionBuffer) \/ NoLength(SectionBuffer)) =>
              /\ SectionTryReadBytes(SectionBuffer).kind = "InvalidSize"
              /\ SectionTryReadHeaderBytes(SectionBuffer).kind = "InvalidSize"
        /\ last.op \in {"read_section", "find_section"} =>
              /\ last.res.kind = "Ok" =>
                    last.res.section.length <= MAX_BLOCK_SIZE + 128
              /\ last.res.kind = "InsufficientData" =>
                    (~OverCeiling(SectionBuffer) /\ ~NoLength(SectionBuffer))

(* read_section refused with InvalidSize at a section that declares        *)
(* 2 MiB + 129 bytes, of which the buffer holds fewer than 16.             *)
C27_Witness ==
    /\ kind \in {"v1", "v2", "u"}
    /\ HasInnerV1(kind, rd)
    /\ last.op = "read_section"
    /\ last.res = Err("InvalidSize")
    /\ OverCeiling(SectionBuffer)
    /\ Len(SectionBuffer) < 16


---------------------------------------------------------------------------
(* read_section of the v1 reader when no section comes out.                *)

(* The buffer holds the first bytes, not all, of one of the stream's       *)
(* sections.                                                               *)
PartialSection(r) ==
    /\ BufferMirrorsStream(r)
    /\ \E i \in 1..Len(Expected(S)) :
          /\ Expected(S)[i].location.offset = r.start
          /\ Len(r.data) < Expected(S)[i].location.length

C31_Step ==
    /\ (kind = "v1" /\ last'.op = "read_section" /\ rd.header.present) =>
          /\ PartialSection(rd) =>
                last'.res = InsufficientData(rd.start + Len(rd.data), 0)
          /\ last'.res.kind = "InsufficientData" =>
                last'.res = InsufficientData(rd.start + Len(rd.data), 0)
          /\ ~(last'.res.kind \in {"Ok", "Panic"}) => rd' = rd
    /\ (/\ kind = "v1"
        /\ last.op = "read_section"
        /\ last.res.kind = "InsufficientData"
        /\ last'.op = "receive_data"
        /\ last'.pos = last.res.offset) =>
          /\ rd'.data = rd.data \o last'.buf
          /\ rd'.start = rd.start
          /\ rd'.header = rd.header

(* C31: when the buffer of the v1 reader holds only part of a section,     *)
(* read_section returns InsufficientData(start + |buffer|, 0); that and    *)
(* every other error it returns leaves buffer, start and header as they    *)
(* were, and a receive_data at the offset returned appends to the buffer   *)
(* and keeps start, so that the next read_section parses the same section. *)
C31_InsufficientFrame == [][C31_Step]_vars

(* read_section has asked for more with the first bytes of a section of    *)
(* the stream buffered.                                                    *)
C31_Witness ==
    /\ kind = "v1"
    /\ last.op = "read_section"
    /\ last.res = InsufficientData(rd.start + Len(rd.data), 0)
    /\ rd.header.present
    /\ rd.data # <<>>
    /\ PartialSection(rd)



(* Where the section after the last one read starts: after the header, or  *)
(* after the last section.                                                 *)
Cursor ==
    IF log # <<>>
    THEN log[Len(log)].location.offset + log[Len(log)].location.length
    ELSE IF rd.header.present THEN rd.header.size
    ELSE 0

(* C32: in the pull loop on the v1 reader (read_header, then read_section  *)
(* with every chunk handed over at the offset asked for), the first        *)
(* section returned is located at total_header_size, every next one at the *)
(* previous offset + the previous length, and at every moment start is the *)
(* stream offset of the first byte not yet parsed: the header's size once  *)
(* it is parsed, the end of the last section after that, with the buffer   *)
(* holding the stream's bytes from there.                                  *)
C32_ContiguousLocations ==
    kind = "v1" =>
        /\ rd.header.present => rd.header.size = TotalHeaderSize
        /\ \A i \in 1..Len(log) :
              log[i].location.offset =
                  IF i = 1 THEN TotalHeaderSize
                  ELSE log[i - 1].location.offset + log[i - 1].location.length
        /\ rd.start = Cursor
        /\ BufferMirrorsStream(rd)

(* Three sections read one after the other, each starting where the one    *)
(* before it ended.                                                        *)
C32_Witness ==
    /\ kind = "v1"
    /\ last.op = "read_section"
    /\ last.res.kind = "Ok"
    /\ Len(log) = 3
    /\ log[1].location.offset = TotalHeaderSize
    /\ log[3].location.offset = log[2].location.offset + log[2].location.length
    /\ rd.start = log[3].location.offset + log[3].location.length



---------------------------------------------------------------------------
(* The offsets the v2 reader asks for.                                     *)

(* The reader's receive_data accepts a chunk at this position: it lies in  *)
(* the payload window of the v2 header the reader holds.                   *)
InWindow(r, offset) ==
    /\ r.header.data_offset <= offset
    /\ offset < AddSat(r.header.data_offset, r.header.data_size)

(* C33 as stated: every InsufficientData(offset, _) that read_header,      *)
(* read_section or find_section of the v2 reader returns in state HeaderV2 *)
(* or HeaderV1 has data_offset <= offset < data_offset + data_size.        *)
C33_AsStated ==
    (/\ kind = "v2"
     /\ rd.state \in {"HeaderV2", "HeaderV1"}
     /\ last.op \in {"read_header", "read_section", "find_section"}
     /\ last.res.kind = "InsufficientData") =>
        InWindow(rd, last.res.offset)



---------------------------------------------------------------------------
(* Section parsing on arbitrary bytes.                                     *)

SectionParsed ==
    /\ kind = "codec"
    /\ pc = "done"
    /\ last.op \in {"Section::try_read_bytes", "Section::try_read_header_bytes"}

(* C34 as stated: on every byte sequence try_read_bytes and                *)
(* try_read_header_bytes return Ok, InsufficientData, InvalidCid or        *)
(* InvalidSize, never a panic; a declared length smaller than the CID      *)
(* parsed is not accepted; and an Ok((section, n)) has n = varint_size +   *)
(* length with |cid| + |block| = length (|cid| <= length for the           *)
(* header-only variant).                                                   *)
C34_AsStated ==
    SectionParsed =>
        /\ last.res.kind \in {"Ok", "InsufficientData", "InvalidCid", "InvalidSize"}
        /\ last.res.kind = "Ok" =>
              /\ last.res.size = UVarintDecode(last.buf).size + last.res.section.length
              /\ Len(last.res.section.cid) <= last.res.section.length
              /\ last.op = "Section::try_read_bytes" =>
                    Len(last.res.section.cid) + Len(last.res.section.block)
                        = last.res.section.length



---------------------------------------------------------------------------
(* Streams whose second section holds a malformed CID, the section being   *)
(* the last of the stream or followed by a well-formed one, read by a free *)
(* caller.                                                                 *)

MalformedStreams ==
    {CeilingStream(Declared(Len(cid) + 3, cid \o Cont(0, 3)) \o more) :
        cid \in MalformedCids, more \in {<<>>, SectionToBytes(SecA)}}

InitMalformed ==
    /\ kind = "v1"
    /\ S \in MalformedStreams
    /\ build \in Builds
    /\ rd = New(kind)
    /\ last = NoCall
    /\ pc = "free"
    /\ log = <<>>
    /\ InitWriterIdle

SpecMalformed == InitMalformed /\ [][NextRd]_vars

(* The bytes begin with a length prefix and hold at least the number of    *)
(* bytes it declares after it.                                             *)
CompleteAtCursor(bytes) ==
    /\ UVarintDecode(bytes).ok
    /\ Len(bytes) >= UVarintDecode(bytes).size + UVarintDecode(bytes).value

(* C35 as stated: read_section of the v1 reader does not return            *)
(* InsufficientData while the buffer holds varint_size + declared length   *)
(* bytes of the section at the cursor; a section whose CID is malformed or *)
(* longer than the section is answered with InvalidSectionFormat.          *)
C35_AsStated ==
    (/\ kind = "v1"
     /\ rd.header.present
     /\ last.op = "read_section"
     /\ last.res.kind = "InsufficientData") =>
        ~CompleteAtCursor(rd.data)



---------------------------------------------------------------------------
(* The v2 reader's states and its headers.                                 *)

(* C36: in every reachable state of the v2 reader, alone or inside the     *)
(* unified reader, has_header() is true iff the state is HeaderV1 iff      *)
(* header() returns Some; in state HeaderV1 the embedded v1 reader has a   *)
(* parsed header, the one header() returns, and in state HeaderV2 it has   *)
(* none.                                                                   *)
C36_HeaderAvailability ==
    HasV2(kind, rd) =>
        /\ V2HasHeader(TheV2(kind, rd)) <=> TheV2(kind, rd).state = "HeaderV1"
        /\ V2Header(TheV2(kind, rd)).some <=> TheV2(kind, rd).state = "HeaderV1"
        /\ TheV2(kind, rd).state = "HeaderV1" =>
              /\ V1HasHeader(TheV2(kind, rd).v1_reader)
              /\ V2Header(TheV2(kind, rd)).v1.present
        /\ TheV2(kind, rd).state = "HeaderV2" =>
              ~V1HasHeader(TheV2(kind, rd).v1_reader)

(* The v2 reader in state HeaderV1 after a read_header that found the v1   *)
(* header of the payload, header() returning it.                           *)
C36_Witness ==
    /\ kind = "v2"
    /\ rd.state = "HeaderV1"
    /\ last.op = "read_header"
    /\ last.res = Ok
    /\ V2Header(rd).some
    /\ V2Header(rd).v1.roots = S.roots
    /\ rd.v1_reader.header.present



---------------------------------------------------------------------------
(* v2 streams whose header announces a payload window that starts inside   *)
(* the pragma or the v2 header, or whose size is u64::MAX, read by a free  *)
(* caller.                                                                 *)

WindowStream(data_offset, data_size) ==
    Stream(CAR_V2_PRAGMA
               \o CarV2HeaderToBytes(CarV2Header(0, data_offset, data_size, 0))
               \o StreamC.bytes,
           StreamC.roots, StreamC.sections, 51, Len(StreamC.bytes))

WindowStreams ==
    {WindowStream(0, 51 + Len(StreamC.bytes)), WindowStream(11, Len(StreamC.bytes)),
     WindowStream(50, Len(StreamC.bytes)), WindowStream(51, Max64),
     WindowStream(51, Len(StreamC.bytes))}

InitWindow ==
    /\ kind \in {"v2", "u"}
    /\ S \in WindowStreams
    /\ build \in Builds
    /\ rd = New(kind)
    /\ last = NoCall
    /\ pc = "free"
    /\ log = <<>>
    /\ InitWriterIdle

SpecWindow == InitWindow /\ [][NextRd]_vars

(* C37 as stated: in state HeaderV2 or HeaderV1 the v2 header the reader   *)
(* holds has data_offset >= 51, and its data_offset + data_size does not   *)
(* overflow.                                                               *)
C37_AsStated ==
    (HasV2(kind, rd) /\ TheV2(kind, rd).state \in {"HeaderV2", "HeaderV1"}) =>
        /\ TheV2(kind, rd).header.data_offset >= 51
        /\ ~SumWraps(TheV2(kind, rd).header.data_offset,
                     TheV2(kind, rd).header.data_size)


(* Reading back the sink with the v2 reader, the whole of it handed over   *)
(* in one receive_data call at position 0.                                 *)
ReadBackV2 == OneShot("v2", Stream(sink, <<>>, <<>>, 0, Len(sink)))

(* The caller has written everything: payload, then pragma and header.     *)
SinkComplete ==
    /\ kind = "w2"
    /\ wr.phase = "Finalized"
    /\ wr.header_saved
    /\ pc = "write"

(* C38: once every chunk emitted by the v2 writer is in the sink at its    *)
(* reported offset (the payload during SectionWriting, then the 51 bytes   *)
(* at offset 0 after finalize_sections and finalize_index), the v2 reader  *)
(* parses the sink into the same roots and the same sections, each at the  *)
(* location its write_section returned, followed by EndOfSections.         *)
C38_Composition ==
    SinkComplete =>
        /\ ReadBackV2.header.kind = "Ok"
        /\ ReadBackV2.rd.header = wr.header
        /\ ReadBackV2.rd.v1_reader.header.roots = S.roots
        /\ ReadBackV2.sections = written
        /\ ReadBackV2.end.kind = "EndOfSections"

(* Three sections written in more than one range, read back after          *)
(* finalize_index and the header's send_data.                              *)
C38_Witness ==
    /\ SinkComplete
    /\ wr.header.characteristics = 0
    /\ Len(written) = MaxSections
    /\ written[2].section = SecBig
    /\ S.roots # <<>>
    /\ Len(ReadBackV2.sections) = MaxSections
    /\ ReadBackV2.end.kind = "EndOfSections"


(* The bytes the caller has written to the sink after the payload: the     *)
(* index, the index phase's send_data being the only call that reports     *)
(* offsets there.                                                          *)
SinkIndex == Drop(sink, wr.header.data_offset + wr.header.data_size)

(* C39 as stated: the header made by finalize_index or finalize_full_index *)
(* has index_offset 0 iff no index bytes were emitted, a non-zero          *)
(* index_offset is at least data_offset + data_size, and the               *)
(* has-full-index bit is set only with index_offset # 0.                   *)
C39_AsStated ==
    (kind = "w2" /\ wr.phase = "Finalized") =>
        /\ wr.header.index_offset = 0 <=> SinkIndex = <<>>
        /\ wr.header.index_offset # 0 =>
              wr.header.index_offset >= wr.header.data_offset + wr.header.data_size
        /\ wr.header.characteristics % 2 = 1 => wr.header.index_offset # 0


(* The i-th base-128 digit of a 64-bit value, the lowest being the first;  *)
(* the tenth is bit 63 and every later one is 0.                           *)
RECURSIVE Base128(_, _)
Base128(w, i) == IF i = 1 THEN Low7(w) ELSE Base128(Shr7(w), i - 1)

(* v is the sum of (bytes[i] & 0x7F) * 128^(i-1) over the first n bytes:   *)
(* the sum is below 2^64 and has v's digits exactly when each byte's low   *)
(* seven bits are v's digit at that place and v has no digit beyond.       *)
IsUnboundedSum(v, bytes, n) ==
    /\ \A i \in 1..n : bytes[i] % 128 = Base128(v, i)
    /\ \A i \in (n + 1)..10 : Base128(v, i) = 0

(* C40 as stated: whenever UnsignedVarint::decode returns Some((v, n)), v  *)
(* is the unbounded sum of (byte_i & 0x7F) * 128^i over the n bytes read;  *)
(* an encoding of a number that needs more than 64 bits gives None.        *)
C40_AsStated ==
    (/\ kind = "codec"
     /\ pc = "done"
     /\ last.op = "UnsignedVarint::decode"
     /\ last.res.ok) =>
        IsUnboundedSum(last.res.value, last.buf, last.res.size)

====
